---------------------------- MODULE Spec2Model ----------------------------
(***************************************************************************)
(* Model of the Maximo record-access clients:                              *)
(*   MaximoAPIClient        (src/new_max_ageny.py)                         *)
(*   EnhancedMaximoClient   (src/updatetest.py)                            *)
(* One client call runs at a time.  Every backend request is one action;   *)
(* the backend's answer is chosen nondeterministically inside the action   *)
(* and the rest of the handler up to the next request is part of it.       *)
(***************************************************************************)
EXTENDS Integers, Sequences, FiniteSets, TLC

(***************************************************************************)
(* Bounds                                                                  *)
(***************************************************************************)
\* largest number of keys in one wire record
MaxRecLen == 2
\* largest number of fields in one submitted FieldSet
MaxFields == 2

(***************************************************************************)
(* Strings.  A field name is a sequence of tokens so that prefixing,       *)
(* startswith("spi:") and lower() are computed, not assumed.               *)
(***************************************************************************)
Lower(tok) ==
    CASE tok = "SPI:" -> "spi:"
      [] tok = "STATUS" -> "status"
      [] tok = "DESCRIPTION" -> "description"
      [] tok = "ASSETNUM" -> "assetnum"
      [] tok = "SITEID" -> "siteid"
      [] tok = "LOCATION" -> "location"
      [] tok = "PUMP" -> "pump"
      [] tok = "FAN" -> "fan"
      [] OTHER -> tok

Upper(tok) ==
    CASE tok = "spi:" -> "SPI:"
      [] tok = "status" -> "STATUS"
      [] tok = "description" -> "DESCRIPTION"
      [] tok = "assetnum" -> "ASSETNUM"
      [] tok = "siteid" -> "SITEID"
      [] tok = "location" -> "LOCATION"
      [] OTHER -> tok

\* str.lower() / str.upper() on a field name
KeyLower(k) == [i \in DOMAIN k |-> Lower(k[i])]
\* a variant that leaves a field name as the caller wrote it
KeyAsWritten(k) == k

KeyUpper(k) == [i \in DOMAIN k |-> Upper(k[i])]

\* f"spi:{field}"
Spi(k) == <<"spi:">> \o k

\* Python None / JSON null
None == "None"

\* logical field names a caller submits
LogicalFields == {<<"status">>, <<"description">>}
\* the values a caller submits (null included) and the values the backend holds
SubmittedValues == {"ACTIVE", None}
StoredValues == {"ACTIVE", "INACTIVE"}

\* the representations of a logical field the backend may use as a key
WireKeys == UNION {{f, Spi(f), KeyUpper(f), KeyUpper(Spi(f))} : f \in LogicalFields}

(***************************************************************************)
(* Python dicts: insertion-ordered sequences of key/value pairs with       *)
(* distinct keys.                                                          *)
(***************************************************************************)
DistinctKeys(d) == \A i, j \in DOMAIN d : d[i].k = d[j].k => i = j

DictsOver(keys, vals, n) ==
    UNION {{d \in [1..m -> [k : keys, v : vals]] : DistinctKeys(d)} : m \in 0..n}

\* k in d
Has(d, k) == \E i \in DOMAIN d : d[i].k = k

\* d[k]
Get(d, k) == d[CHOOSE i \in DOMAIN d : d[i].k = k].v

\* d[k] = v (keeps the position of an existing key, appends a new one)
Put(d, k, v) ==
    IF Has(d, k)
    THEN [i \in DOMAIN d |-> IF d[i].k = k THEN [k |-> k, v |-> v] ELSE d[i]]
    ELSE Append(d, [k |-> k, v |-> v])

\* lk in [k.lower() for k in d.keys()]
HasCI(d, lk) == \E i \in DOMAIN d : KeyLower(d[i].k) = lk

\* for k in d.keys(): if k.lower() == lk: ... d[k]; break
GetCI(d, lk) ==
    LET i == CHOOSE x \in DOMAIN d :
                 /\ KeyLower(d[x].k) = lk
                 /\ \A y \in DOMAIN d : KeyLower(d[y].k) = lk => x <= y
    IN  d[i].v

WireRecords == DictsOver(WireKeys, StoredValues, MaxRecLen)
FieldSets == DictsOver(LogicalFields, SubmittedValues, MaxFields) \ {<< >>}

\* the logical field a wire key stands for: prefix dropped, lower case
Logical(k) ==
    LET lk == KeyLower(k)
    IN  IF lk # << >> /\ lk[1] = "spi:" THEN Tail(lk) ELSE lk


(***************************************************************************)
(* Backend answers.  code 0 stands for a request that raised (timeout,     *)
(* connection error); body "unparsable" for a 200 answer whose json()      *)
(* raises; body "malformed" for a "member" value that is not a list of     *)
(* records.  A json body may hold the "member" key, the "rdfs:member" key, *)
(* both or neither.  A point lookup answers with at most one record.       *)
(***************************************************************************)
MemberLists == {<< >>} \cup {<<r>> : r \in WireRecords}

NoData == [has_member |-> FALSE, member |-> << >>, has_rdfs |-> FALSE, rdfs |-> << >>]

JsonData ==
    {NoData}
    \cup {[has_member |-> TRUE, member |-> m, has_rdfs |-> FALSE, rdfs |-> << >>] :
              m \in MemberLists}
    \cup {[has_member |-> FALSE, member |-> << >>, has_rdfs |-> TRUE, rdfs |-> m] :
              m \in MemberLists}
    \cup {[has_member |-> TRUE, member |-> << >>, has_rdfs |-> TRUE, rdfs |-> m] :
              m \in MemberLists \ {<< >>}}

ReadResponses ==
    {[code |-> c, body |-> "none", data |-> NoData] : c \in {0, 404, 500}}
    \cup {[code |-> 200, body |-> b, data |-> NoData] : b \in {"unparsable", "malformed"}}
    \cup {[code |-> 200, body |-> "json", data |-> d] : d \in JsonData}

\* answers to a write request: only the status code is read by update
WriteResponses == {0, 200, 201, 204, 400, 500}

(***************************************************************************)
(* Outcome of one strategy attempt, as the chain sees it.                  *)
(***************************************************************************)
Outcomes == {"ok", "empty", "http_error", "exception"}

(***************************************************************************)
(* MaximoAPIClient.get_asset, OSLC strategy                                *)
(***************************************************************************)
\* the four-step lookup of one requested field in one member
GetAssetLookup(asset, field) ==
    IF Has(asset, field) THEN [found |-> TRUE, v |-> Get(asset, field)]
    ELSE IF Has(asset, Spi(field)) THEN [found |-> TRUE, v |-> Get(asset, Spi(field))]
    ELSE IF HasCI(asset, KeyLower(field))
         THEN [found |-> TRUE, v |-> GetCI(asset, KeyLower(field))]
    ELSE IF HasCI(asset, KeyLower(Spi(field)))
         THEN [found |-> TRUE, v |-> GetCI(asset, KeyLower(Spi(field)))]
    ELSE [found |-> FALSE, v |-> None]

RECURSIVE CleanFields(_, _, _)
CleanFields(asset, fields_list, clean) ==
    IF fields_list = << >> THEN clean
    ELSE LET field == Head(fields_list)
             hit == GetAssetLookup(asset, field)
         IN  CleanFields(asset, Tail(fields_list),
                         IF hit.found THEN Put(clean, field, hit.v) ELSE clean)

\* clean_asset for one member, with the trailing "ensure assetnum" step
CleanAsset(asset, fields_list) ==
    LET clean == CleanFields(asset, fields_list, << >>)
    IN  IF ~Has(clean, <<"assetnum">>) /\ Has(asset, Spi(<<"assetnum">>))
        THEN Put(clean, <<"assetnum">>, Get(asset, Spi(<<"assetnum">>)))
        ELSE clean

\* members = data["member"] if present, else data["rdfs:member"] if present
OslcMembers(data) ==
    IF data.has_member THEN data.member
    ELSE IF data.has_rdfs THEN data.rdfs
    ELSE << >>

\* fields_list: the requested fields, with assetnum appended when missing
FieldsList(fields_to_select) ==
    IF \E i \in DOMAIN fields_to_select : KeyLower(fields_to_select[i]) = <<"assetnum">>
    THEN fields_to_select
    ELSE Append(fields_to_select, <<"assetnum">>)

DefaultAssetFields ==
    << <<"assetnum">>, <<"description">>, <<"status">>, <<"assettype">>, <<"calnum">> >>

GetAssetOslcOutcome(resp) ==
    IF resp.code = 0 THEN "exception"
    ELSE IF resp.code # 200 THEN "http_error"
    ELSE IF resp.body # "json" THEN "exception"
    ELSE IF OslcMembers(resp.data) = << >> THEN "empty"
    ELSE "ok"

\* A value returned by a read: a list of records, or the malformed "member"
\* value handed on as it came.
ListOf(items) == [kind |-> "list", items |-> items]
Malformed == [kind |-> "malformed", items |-> << >>]

\* Python truthiness of a returned value
Truthy(ret) == ret.kind = "malformed" \/ ret.items # << >>

\* fields_to_select or the default list (fields_to_select is << >> for None)
SelectedOrDefault(fields_to_select, default) ==
    IF fields_to_select = << >> THEN default ELSE fields_to_select

\* the list get_asset returns from the OSLC strategy (when its outcome is ok)
GetAssetOslcValue(resp, fields_to_select) ==
    LET members == OslcMembers(resp.data)
        fl == FieldsList(SelectedOrDefault(fields_to_select, DefaultAssetFields))
    IN  ListOf([i \in DOMAIN members |-> CleanAsset(members[i], fl)])

\* the read chain goes on to the REST strategy unless the OSLC one returned
GetAssetOslcReturns(outcome) == outcome = "ok"

(***************************************************************************)
(* MaximoAPIClient.get_asset, REST strategy                                *)
(***************************************************************************)
GetAssetRestOutcome(resp) ==
    IF resp.code = 0 THEN "exception"
    ELSE IF resp.code # 200 THEN "http_error"
    ELSE IF resp.body = "unparsable" THEN "exception"
    ELSE IF resp.body = "malformed" THEN "ok"
    ELSE IF resp.data.has_member /\ resp.data.member # << >> THEN "ok"
    ELSE "empty"

\* the raw members are returned as they came
GetAssetRestValue(resp) ==
    IF resp.body = "malformed" THEN Malformed ELSE ListOf(resp.data.member)

\* "If all methods failed, return empty list"
GetAssetFallthrough == ListOf(<< >>)


(***************************************************************************)
(* Returned values of the client calls.  One shape for all of them:        *)
(*   kind     "pending" | "None" | "dict" | "list" | "malformed" | "raise" *)
(*   status   the dict's "status" entry, or "absent"                       *)
(*   success, verified   EnhancedMaximoClient's entries, or "absent"       *)
(*   msg      which message text the dict carries                          *)
(*   verification   the dict's "verification" entry                        *)
(*   error    the dict's "error" entry, or "absent"                        *)
(*   assetnum the dict's "assetnum" entry set by create, or "absent"       *)
(*   value    the records of a returned list                               *)
(*   fields   the dict's entries spread from create_fields                 *)
(***************************************************************************)
Blank ==
    [kind |-> "pending", status |-> "absent", success |-> "absent", verified |-> "absent",
     msg |-> "absent", has_verification |-> FALSE, verification |-> << >>,
     error |-> "absent", assetnum |-> "absent", value |-> << >>, fields |-> << >>]

ResNone == [Blank EXCEPT !.kind = "None"]
ResRaise(m) == [Blank EXCEPT !.kind = "raise", !.msg = m]
ResValue(ret) == [Blank EXCEPT !.kind = ret.kind, !.value = ret.items]
ResStatus(st, m) == [Blank EXCEPT !.kind = "dict", !.status = st, !.msg = m]

(***************************************************************************)
(* MaximoAPIClient.update_asset: write outcome and verification            *)
(***************************************************************************)
\* status codes update takes as accepted
UpdateAccepted == {200, 201, 204}

UpdateWriteOutcome(code) ==
    IF code = 0 THEN "exception"
    ELSE IF code \in UpdateAccepted THEN "ok"
    ELSE "http_error"

\* actual_value of one submitted field in the re-read record (None when absent)
VerifyLookup(updated_asset, field) ==
    IF Has(updated_asset, field) THEN Get(updated_asset, field)
    ELSE IF Has(updated_asset, Spi(field)) THEN Get(updated_asset, Spi(field))
    ELSE IF HasCI(updated_asset, KeyLower(field))
         THEN GetCI(updated_asset, KeyLower(field))
    ELSE IF HasCI(updated_asset, KeyLower(Spi(field)))
         THEN GetCI(updated_asset, KeyLower(Spi(field)))
    ELSE None

\* actual_value == expected_value
VerifyEquals(actual_value, expected_value) == actual_value = expected_value

\* verification_results[field]: {"verified": True, "value": actual_value} or
\* {"verified": False, "expected": ..., "actual": ...}; the observed value is
\* kept in actual for both, and a verified entry has no "expected" key
VerifyEntry(updated_asset, field, expected_value) ==
    LET actual_value == VerifyLookup(updated_asset, field)
    IN  [field |-> field,
         verified |-> VerifyEquals(actual_value, expected_value),
         expected |-> IF VerifyEquals(actual_value, expected_value) THEN "absent"
                      ELSE expected_value,
         actual |-> actual_value]

VerificationResults(upd, updated_asset) ==
    [i \in DOMAIN upd |-> VerifyEntry(updated_asset, upd[i].k, upd[i].v)]

\* fields_to_request of the verification read: assetnum, then the submitted keys
FieldsToRequest(upd) == <<<<"assetnum">>>> \o [i \in DOMAIN upd |-> upd[i].k]

\* what update_asset returns once get_asset has answered the verification read
UpdateAssetVerified(upd, updated_assets) ==
    IF ~Truthy(updated_assets)
    THEN ResStatus("success", "accepted_could_not_verify")
    ELSE IF updated_assets.kind = "malformed"
    THEN [ResStatus("success", "accepted_verification_failed") EXCEPT !.error = "exception"]
    ELSE LET vr == VerificationResults(upd, updated_assets.items[1])
         IN  IF \A i \in DOMAIN vr : vr[i].verified
             THEN [ResStatus("success", "all_changes_verified")
                       EXCEPT !.has_verification = TRUE, !.verification = vr]
             ELSE [ResStatus("partial_success", "some_changes_not_applied")
                       EXCEPT !.has_verification = TRUE, !.verification = vr]

\* a variant that goes on to the write whatever the lookup returned
UpdateProceedsUnconditionally(assets) == TRUE

\* update_asset gives up before any write when the lookup found nothing
UpdateProceeds(assets) == Truthy(assets)

(***************************************************************************)
(* MaximoAPIClient._get_record_href                                        *)
(*   answers: "exception" a RequestException of the request;               *)
(*   "not_ok" a status >= 400; "unparsable" a body json() rejects, which   *)
(*   is a RequestException or a plain ValueError depending on the          *)
(*   installed requests version; "not_object" a JSON body without .get;    *)
(*   "no_member"; "member_href"; "member_no_href".                         *)
(***************************************************************************)
HrefResponses ==
    {"exception", "not_ok", "unparsable", "not_object", "no_member",
     "member_href", "member_no_href"}

\* the outcomes the call can have for one answer: an href, None, or a raise
GetRecordHref(answer) ==
    CASE answer = "member_href" -> {"href"}
      [] answer = "not_object" -> {"raise"}
      [] answer = "unparsable" -> {"none", "raise"}
      [] OTHER -> {"none"}


(***************************************************************************)
(* MaximoAPIClient.get_location and update_location                        *)
(***************************************************************************)
\* the only request get_location sends: its REST fallback builds a filter
\* and sends nothing
GetLocationOslcOutcome(resp) ==
    IF resp.code = 0 THEN "exception"
    ELSE IF resp.code # 200 THEN "http_error"
    ELSE IF resp.body # "json" THEN "exception"
    ELSE IF OslcMembers(resp.data) = << >> THEN "empty"
    ELSE "ok"

LocationWriteOutcome(code) ==
    IF code = 0 THEN "exception"
    ELSE IF code \in {200, 201, 204} THEN "ok"
    ELSE "http_error"

\* "For simplicity, report success without detailed verification"
UpdateLocationAccepted == ResStatus("success", "location_update_accepted")

(***************************************************************************)
(* EnhancedMaximoClient.get_asset and update_asset                         *)
(***************************************************************************)
EnhGetAssetOslcOutcome(resp) ==
    IF resp.code = 0 THEN "exception"
    ELSE IF resp.code # 200 THEN "http_error"
    ELSE IF resp.body # "json" THEN "exception"
    ELSE IF OslcMembers(resp.data) = << >> THEN "empty"
    ELSE "ok"

EnhGetAssetRestOutcome(resp) ==
    IF resp.code = 0 THEN "exception"
    ELSE IF resp.code # 200 THEN "http_error"
    ELSE IF resp.body # "json" THEN "exception"
    ELSE IF resp.data.has_member /\ resp.data.member # << >> THEN "ok"
    ELSE "empty"

EnhWriteOutcome(code) ==
    IF code = 0 THEN "exception"
    ELSE IF code \in {200, 201, 204} THEN "ok"
    ELSE "http_error"

\* updated_asset.get(f"spi:{key}", updated_asset.get(key))
EnhLookup(updated_asset, key) ==
    IF Has(updated_asset, Spi(key)) THEN Get(updated_asset, Spi(key))
    ELSE IF Has(updated_asset, key) THEN Get(updated_asset, key)
    ELSE None

EnhVerificationPassed(upd, updated_asset) ==
    \A i \in DOMAIN upd : ~(EnhLookup(updated_asset, upd[i].k) # upd[i].v)

EnhResult(verified, m) ==
    [Blank EXCEPT !.kind = "dict", !.success = "True", !.verified = verified, !.msg = m]

\* the dict returned after the verification read answered with updated_asset
EnhVerified(upd, updated_asset) ==
    IF EnhVerificationPassed(upd, updated_asset)
    THEN EnhResult("True", "updated_successfully")
    ELSE EnhResult("False", "updated_some_changes_not_verified")

\* the verification read raised
EnhVerifyFailed == EnhResult("False", "updated_verification_failed")

\* verify=False
EnhNotVerified == EnhResult("False", "updated_not_verified")

(***************************************************************************)
(* list_assets                                                             *)
(***************************************************************************)
DefaultListFields ==
    << <<"assetnum">>, <<"siteid">>, <<"description">>, <<"status">>, <<"location">>,
       <<"assettype">> >>

\* exact key, prefixed key, then the first key that matches either in any case
ListLookup(asset, field) ==
    IF Has(asset, field) THEN [found |-> TRUE, v |-> Get(asset, field)]
    ELSE IF Has(asset, Spi(field)) THEN [found |-> TRUE, v |-> Get(asset, Spi(field))]
    ELSE IF \E i \in DOMAIN asset :
                \/ KeyLower(asset[i].k) = KeyLower(field)
                \/ KeyLower(asset[i].k) = KeyLower(Spi(field))
         THEN LET i == CHOOSE x \in DOMAIN asset :
                           /\ \/ KeyLower(asset[x].k) = KeyLower(field)
                              \/ KeyLower(asset[x].k) = KeyLower(Spi(field))
                           /\ \A y \in DOMAIN asset :
                                 (\/ KeyLower(asset[y].k) = KeyLower(field)
                                  \/ KeyLower(asset[y].k) = KeyLower(Spi(field))) => x <= y
              IN  [found |-> TRUE, v |-> asset[i].v]
    ELSE [found |-> FALSE, v |-> None]

RECURSIVE ListCleanFields(_, _, _)
ListCleanFields(asset, fields_list, clean) ==
    IF fields_list = << >> THEN clean
    ELSE LET field == Head(fields_list)
             hit == ListLookup(asset, field)
         IN  ListCleanFields(asset, Tail(fields_list),
                             IF hit.found THEN Put(clean, field, hit.v) ELSE clean)

ListOslcOutcome(resp) ==
    IF resp.code = 0 THEN "exception"
    ELSE IF resp.code # 200 THEN "http_error"
    ELSE IF resp.body # "json" THEN "exception"
    ELSE IF OslcMembers(resp.data) = << >> THEN "empty"
    ELSE "ok"

\* a 200 answer ends list_assets, with or without records
ListOslcReturns(outcome) == outcome \in {"ok", "empty"}

ListOslcValue(resp, sel) ==
    LET members == OslcMembers(resp.data)
        fl == SelectedOrDefault(sel, DefaultListFields)
    IN  ListOf([i \in DOMAIN members |-> ListCleanFields(members[i], fl, << >>)])

ListRestOutcome(resp) ==
    IF resp.code = 0 THEN "exception"
    ELSE IF resp.code # 200 THEN "http_error"
    ELSE IF resp.body = "unparsable" THEN "exception"
    ELSE IF resp.body = "malformed" THEN "ok"
    ELSE IF resp.data.has_member /\ resp.data.member # << >> THEN "ok"
    ELSE "empty"

ListRestValue(resp) ==
    IF resp.body = "malformed" THEN Malformed ELSE ListOf(resp.data.member)

(***************************************************************************)
(* MaximoAPIClient.create_asset                                            *)
(*   a create answer: its status code and, for 200/201, what the body is:  *)
(*   "unparsable" (json() raises), "falsy" (an empty object or list),      *)
(*   "no_id" (no asset number in any known place), "star" (the asset       *)
(*   number is the placeholder "*"), "id" (an asset number).               *)
(***************************************************************************)
CreateBodies == {"unparsable", "falsy", "no_id", "star", "id"}

CreateResponses ==
    {[code |-> c, body |-> "none"] : c \in {0, 204, 400, 500}}
    \cup {[code |-> c, body |-> b] : c \in {200, 201}, b \in CreateBodies}

\* success is set after response.json() returned
CreateOutcome(resp) ==
    IF resp.code = 0 THEN "exception"
    ELSE IF resp.code \notin {200, 201} THEN "http_error"
    ELSE IF resp.body = "unparsable" THEN "exception"
    ELSE "ok"

\* created_assetnum after parsing response_data
ParsedAssetnum(resp) == IF resp.body = "id" THEN "NEW" ELSE None

\* where create_asset goes once a strategy succeeded
AfterCreated(assetnum) == IF assetnum = None THEN "cr_search" ELSE "cr_detail"

\* answers to the fallback search and the asset number it yields
SearchResponses ==
    {"exception", "http_error", "unparsable", "no_member", "member_with_assetnum",
     "member_without_assetnum"}

SearchedAssetnum(answer) == IF answer = "member_with_assetnum" THEN "FOUND" ELSE None

\* a dict without its entry for key k
DropKey(d, k) == SelectSeq(d, LAMBDA e : e.k # k)

\* result: "status" and "siteid", then **create_fields, whose entries replace
\* those two, then the entries assigned afterwards ("assetnum" and "message", or
\* "message" and "status"), which replace the caller's entries of the same name
CreateResult(fields, assetnum) ==
    IF assetnum # None
    THEN [ResStatus("success", "asset_created") EXCEPT
             !.assetnum = assetnum,
             !.fields = DropKey(DropKey(fields, <<"message">>), <<"assetnum">>)]
    ELSE [ResStatus("partial_success", "created_number_unknown") EXCEPT
             !.fields = DropKey(DropKey(fields, <<"message">>), <<"status">>)]

\* full_asset of the detail read, with its _message entry
CreateFullAsset(full_assets, assetnum) ==
    [Blank EXCEPT !.kind = "record", !.value = <<full_assets.items[1]>>,
                  !.msg = "asset_created", !.assetnum = assetnum]

(***************************************************************************)
(* State                                                                   *)
(***************************************************************************)
VARIABLES
    op,               \* the client method running, "idle" before the call
    pc,               \* the request the call is about to send, or "done"
    phase,            \* why get_asset runs: "fetch", "pre", "verify", "detail"
    update_data,      \* the submitted FieldSet
    fields_to_select, \* the fields a fetch or list asks for (<< >> for None)
    verify,           \* EnhancedMaximoClient.update_asset's verify argument
    asset_href,       \* the record URI the OSLC PATCH will use, or "none"
    success,          \* the write chain's success flag
    created_assetnum, \* create_asset's asset number, None while unknown
    chain,            \* the attempts of the strategy chain now running or last run
    chain_kind,       \* "read", "update", "create" or "none"
    writes_sent,      \* write requests sent by this call
    verify_reads,     \* read requests sent by this call after an accepted write
    resolved,         \* whether the read before an update found the record
    wire,             \* the members the answering read strategy received
    result            \* the value the call returned

\* Requests and construction, studied one at a time apart from the calls
VARIABLES
    strategy,         \* the strategy or method whose step was taken last, or "none"
    assetnum,         \* get_asset's assetnum argument, as tokens
    siteid,           \* the siteid argument, as tokens (<< >> for None)
    search_criteria,  \* list_assets' search_criteria dict
    where_clause,     \* the oslc.where text of the request built last
    create_fields,    \* create_asset's asset_data dict
    payload,          \* the JSON body of the create request built last
    response,         \* the answer handed to one read strategy
    members,          \* what that read strategy returned for it
    host,             \* the constructor's host argument
    api_key,          \* the constructor's api_key argument
    credentials,      \* the constructor's user and password arguments
    client            \* "none", "constructed", "ValueError", "AttributeError", "requesting"

\* Two update_asset calls running at once on one client
VARIABLES
    at,               \* where each of the two calls stands
    calls,            \* the local variables of each call
    alone,            \* what each call would hold had it run with no other call
    assets            \* the records the backend holds for the site, newest first

thread_vars == <<at, calls, alone, assets>>

\* Write requests, studied one at a time apart from the calls
VARIABLES
    request           \* the write request built last: verb, headers and parameters

\* The attributes of a constructed client
VARIABLES
    config            \* self's host, URLs, credentials and header dicts, or NoConfig

aside == <<strategy, assetnum, siteid, search_criteria, where_clause, create_fields,
           payload, response, members, host, api_key, credentials, client, thread_vars,
           request, config>>

call_vars == <<op, pc, phase, update_data, fields_to_select, verify, asset_href, success,
               created_assetnum, chain, chain_kind, writes_sent, verify_reads, resolved,
               wire, result>>

vars == <<call_vars, aside>>

inputs == <<op, update_data, fields_to_select, verify>>

UpdateOps == {"update_asset", "update_location", "enh_update_asset"}
Ops == UpdateOps \cup {"get_asset", "list_assets", "create_asset"}

\* what a fetch or a list may ask for
Selections ==
    {<< >>, << <<"status">> >>, << <<"description">>, <<"status">> >>}

Attempt(strat, outcome) == [strat |-> strat, outcome |-> outcome]

\* no call is running
CallIdle ==
    /\ op = "idle"
    /\ pc = "idle"
    /\ phase = "none"
    /\ update_data = << >>
    /\ fields_to_select = << >>
    /\ verify = TRUE
    /\ asset_href = "none"
    /\ success = FALSE
    /\ created_assetnum = None
    /\ chain = << >>
    /\ chain_kind = "none"
    /\ writes_sent = 0
    /\ verify_reads = 0
    /\ resolved = "unknown"
    /\ wire = << >>
    /\ result = Blank

\* what a read strategy made of an answer: its outcome and the records it took
NoMembers == [outcome |-> "none", records |-> << >>]

\* no request was built
NoRequest == [method |-> "none", url |-> "none", headers |-> << >>, params |-> << >>]

RequestIdle == request = NoRequest

\* no client was constructed
NoConfig == << >>

\* no two calls run at once
ThreadsIdle ==
    /\ at = << >>
    /\ calls = << >>
    /\ alone = << >>
    /\ assets = << >>

\* nothing is studied apart from the calls
AsideIdle ==
    /\ strategy = "none"
    /\ assetnum = << >>
    /\ siteid = << >>
    /\ search_criteria = << >>
    /\ where_clause = << >>
    /\ create_fields = << >>
    /\ payload = << >>
    /\ response = [code |-> 0, body |-> "none", data |-> NoData]
    /\ members = NoMembers
    /\ host = << >>
    /\ api_key = << >>
    /\ credentials = "none"
    /\ client = "none"
    /\ config = NoConfig
    /\ ThreadsIdle
    /\ RequestIdle

Init == CallIdle /\ AsideIdle

\* a variant in which create_asset starts with the action-style request
FirstPcActionFirst(o) ==
    CASE o = "get_asset" -> "rd_oslc"
      [] o = "update_asset" -> "rd_oslc"
      [] o = "update_location" -> "loc_oslc"
      [] o = "enh_update_asset" -> "enh_oslc"
      [] o = "list_assets" -> "ls_oslc"
      [] o = "create_asset" -> "cr_rest"

\* the first request of each method
FirstPc(o) ==
    CASE o = "get_asset" -> "rd_oslc"
      [] o = "update_asset" -> "rd_oslc"
      [] o = "update_location" -> "loc_oslc"
      [] o = "enh_update_asset" -> "enh_oslc"
      [] o = "list_assets" -> "ls_oslc"
      [] o = "create_asset" -> "cr_oslc"

FirstPhase(o) ==
    CASE o = "get_asset" -> "fetch"
      [] o \in UpdateOps -> "pre"
      [] OTHER -> "none"

\* a caller invokes one method of the client
Call ==
    /\ pc = "idle"
    /\ \E o \in Ops, upd \in FieldSets, sel \in Selections, vf \in BOOLEAN :
          /\ op' = o
          /\ update_data' = IF o \in UpdateOps THEN upd ELSE << >>
          /\ fields_to_select' = IF o \in {"get_asset", "list_assets"} THEN sel ELSE << >>
          /\ verify' = IF o = "enh_update_asset" THEN vf ELSE TRUE
          /\ pc' = FirstPc(o)
          /\ phase' = FirstPhase(o)
    /\ UNCHANGED <<aside, asset_href, success, created_assetnum, chain, chain_kind,
                   writes_sent, verify_reads, resolved, wire, result>>

(***************************************************************************)
(* MaximoAPIClient.get_asset as called by fetch, by update_asset (before   *)
(* the write and to verify it) and by create_asset (detail read)           *)
(***************************************************************************)
\* the fields get_asset is asked for in the current phase
PhaseFields ==
    CASE phase = "verify" -> FieldsToRequest(update_data)
      [] phase = "fetch" -> fields_to_select
      [] OTHER -> << >>

\* a variant that sends the update again when a change was not applied
AfterVerificationRetry(res) ==
    IF res.status = "partial_success" THEN "w_oslc" ELSE "done"

\* update_asset returns what the verification found, whatever it found
AfterVerification(res) == "done"

\* get_asset returned ret to its caller, having received the members raw
GetAssetReturned(ret, raw) ==
    CASE phase = "fetch" ->
            /\ pc' = "done"
            /\ result' = ResValue(ret)
            /\ wire' = raw
            /\ UNCHANGED <<phase, resolved>>
      [] phase = "pre" ->
            /\ pc' = IF UpdateProceeds(ret) THEN "href" ELSE "done"
            /\ result' = IF UpdateProceeds(ret) THEN result ELSE ResNone
            /\ resolved' = IF Truthy(ret) THEN "yes" ELSE "no"
            /\ UNCHANGED <<phase, wire>>
      [] phase = "verify" ->
            /\ pc' = AfterVerification(UpdateAssetVerified(update_data, ret))
            /\ result' = UpdateAssetVerified(update_data, ret)
            /\ wire' = raw
            /\ UNCHANGED <<phase, resolved>>
      [] phase = "detail" ->
            /\ pc' = "done"
            /\ result' = IF ret.kind = "list" /\ ret.items # << >>
                         THEN CreateFullAsset(ret, created_assetnum)
                         ELSE CreateResult(create_fields, created_assetnum)
            /\ wire' = raw
            /\ UNCHANGED <<phase, resolved>>

CountVerifyRead == IF phase = "verify" THEN verify_reads + 1 ELSE verify_reads

\* what get_asset does with the answer resp to its OSLC request
GetAssetOslcTaken(resp) ==
    /\ LET outcome == GetAssetOslcOutcome(resp)
       IN  /\ chain' = Append(chain, Attempt("oslc_read", outcome))
           /\ IF GetAssetOslcReturns(outcome)
              THEN GetAssetReturned(GetAssetOslcValue(resp, PhaseFields),
                                    OslcMembers(resp.data))
              ELSE /\ pc' = "rd_rest"
                   /\ UNCHANGED <<phase, resolved, wire, result>>
    /\ chain_kind' = "read"
    /\ verify_reads' = CountVerifyRead
    /\ UNCHANGED <<inputs, asset_href, success, created_assetnum, writes_sent>>

\* the OSLC request of get_asset was answered with resp
GetAssetOslcAnswered(resp) ==
    /\ GetAssetOslcTaken(resp)
    /\ UNCHANGED aside

GetAssetOslc ==
    /\ pc = "rd_oslc"
    /\ \E resp \in ReadResponses : GetAssetOslcAnswered(resp)

\* what get_asset does with the answer resp to its REST request
GetAssetRestTaken(resp) ==
    /\ LET outcome == GetAssetRestOutcome(resp)
       IN  /\ chain' = Append(chain, Attempt("rest_read", outcome))
           /\ IF outcome = "ok"
              THEN GetAssetReturned(GetAssetRestValue(resp), resp.data.member)
              ELSE GetAssetReturned(GetAssetFallthrough, << >>)
    /\ verify_reads' = CountVerifyRead
    /\ UNCHANGED <<inputs, asset_href, success, created_assetnum, chain_kind,
                   writes_sent>>

\* the REST request of get_asset was answered with resp
GetAssetRestAnswered(resp) ==
    /\ GetAssetRestTaken(resp)
    /\ UNCHANGED aside

GetAssetRest ==
    /\ pc = "rd_rest"
    /\ \E resp \in ReadResponses : GetAssetRestAnswered(resp)

(***************************************************************************)
(* MaximoAPIClient.update_asset                                            *)
(***************************************************************************)
\* the href lookup between the first read and the first write, for
\* update_asset and update_location alike; a raise ends the update with None
LookupHref ==
    /\ pc = "href"
    /\ \E answer \in HrefResponses : \E h \in GetRecordHref(answer) :
          IF h = "raise"
          THEN /\ pc' = "done"
               /\ result' = ResNone
               /\ UNCHANGED <<asset_href, chain, chain_kind>>
          ELSE /\ pc' = IF op = "update_location" THEN "loc_w_oslc" ELSE "w_oslc"
               /\ asset_href' = h
               /\ chain' = << >>
               /\ chain_kind' = "update"
               /\ UNCHANGED result
    /\ UNCHANGED <<inputs, aside, phase, success, created_assetnum, writes_sent, verify_reads,
                   resolved, wire>>

\* a variant that sends the OSLC PATCH again when it was refused
AfterOslcPatchRetry(ok) == IF ok THEN "settle" ELSE "w_oslc"

\* where update_asset goes after the OSLC PATCH
AfterOslcPatch(ok) == IF ok THEN "settle" ELSE "w_rest"

\* where update_asset goes after the action-style Change
AfterRestChange(ok) == IF ok THEN "settle" ELSE "done"

UpdateAssetOslc ==
    /\ pc = "w_oslc"
    /\ \E code \in WriteResponses :
          LET outcome == UpdateWriteOutcome(code)
          IN  /\ chain' = Append(chain, Attempt("oslc_patch", outcome))
              /\ success' = (outcome = "ok")
              /\ pc' = AfterOslcPatch(outcome = "ok")
    /\ writes_sent' = writes_sent + 1
    /\ asset_href' = "none"
    /\ UNCHANGED <<inputs, aside, phase, created_assetnum, chain_kind, verify_reads, resolved,
                   wire, result>>

\* the action-style Change request; both failed: return None
UpdateAssetRest ==
    /\ pc = "w_rest"
    /\ \E code \in WriteResponses :
          LET outcome == UpdateWriteOutcome(code)
          IN  /\ chain' = Append(chain, Attempt("rest_change", outcome))
              /\ success' = (outcome = "ok")
              /\ pc' = AfterRestChange(outcome = "ok")
              /\ result' = IF outcome = "ok" THEN result ELSE ResNone
    /\ writes_sent' = writes_sent + 1
    /\ UNCHANGED <<inputs, aside, phase, asset_href, created_assetnum, chain_kind, verify_reads,
                   resolved, wire>>

\* time.sleep(2), then the verification read starts
UpdateAssetSettle ==
    /\ pc = "settle"
    /\ pc' = "rd_oslc"
    /\ phase' = "verify"
    /\ chain' = << >>
    /\ chain_kind' = "read"
    /\ UNCHANGED <<inputs, aside, asset_href, success, created_assetnum, writes_sent,
                   verify_reads, resolved, wire, result>>

(***************************************************************************)
(* MaximoAPIClient.update_location                                         *)
(***************************************************************************)
\* update_location gives up before any write when get_location found nothing
LocationProceeds(outcome) == outcome = "ok"

\* get_location: one request; anything but records makes it return []
GetLocationOslc ==
    /\ pc = "loc_oslc"
    /\ \E resp \in ReadResponses :
          LET outcome == GetLocationOslcOutcome(resp)
          IN  /\ chain' = Append(chain, Attempt("oslc_read", outcome))
              /\ pc' = IF LocationProceeds(outcome) THEN "href" ELSE "done"
              /\ result' = IF LocationProceeds(outcome) THEN result ELSE ResNone
              /\ resolved' = IF outcome = "ok" THEN "yes" ELSE "no"
    /\ chain_kind' = "read"
    /\ UNCHANGED <<inputs, aside, phase, asset_href, success, created_assetnum, writes_sent,
                   verify_reads, wire>>

UpdateLocationOslc ==
    /\ pc = "loc_w_oslc"
    /\ \E code \in WriteResponses :
          LET outcome == LocationWriteOutcome(code)
          IN  /\ chain' = Append(chain, Attempt("oslc_patch", outcome))
              /\ success' = (outcome = "ok")
              /\ pc' = IF outcome = "ok" THEN "done" ELSE "loc_w_rest"
              /\ result' = IF outcome = "ok" THEN UpdateLocationAccepted ELSE result
    /\ writes_sent' = writes_sent + 1
    /\ asset_href' = "none"
    /\ UNCHANGED <<inputs, aside, phase, created_assetnum, chain_kind, verify_reads, resolved,
                   wire>>

UpdateLocationRest ==
    /\ pc = "loc_w_rest"
    /\ \E code \in WriteResponses :
          LET outcome == LocationWriteOutcome(code)
          IN  /\ chain' = Append(chain, Attempt("rest_change", outcome))
              /\ success' = (outcome = "ok")
              /\ result' = IF outcome = "ok" THEN UpdateLocationAccepted ELSE ResNone
    /\ pc' = "done"
    /\ writes_sent' = writes_sent + 1
    /\ UNCHANGED <<inputs, aside, phase, asset_href, created_assetnum, chain_kind, verify_reads,
                   resolved, wire>>

(***************************************************************************)
(* EnhancedMaximoClient.update_asset                                       *)
(***************************************************************************)
\* get_asset returned the record asset to update_asset
EnhGetAssetReturned(asset) ==
    IF phase = "pre"
    THEN /\ pc' = "enh_prepare"
         /\ resolved' = "yes"
         /\ UNCHANGED <<wire, result>>
    ELSE /\ pc' = "done"
         /\ wire' = <<asset>>
         /\ result' = EnhVerified(update_data, asset)
         /\ UNCHANGED resolved

\* get_asset raised: the update re-raises before the write, reports after it
EnhGetAssetRaised ==
    /\ pc' = "done"
    /\ result' = IF phase = "pre" THEN ResRaise("could_not_find_asset")
                 ELSE EnhVerifyFailed
    /\ resolved' = IF phase = "pre" THEN "no" ELSE resolved
    /\ UNCHANGED wire

\* what get_asset does with the answer resp to its OSLC request
EnhGetAssetOslcTaken(resp) ==
    /\ LET outcome == EnhGetAssetOslcOutcome(resp)
       IN  /\ chain' = Append(chain, Attempt("oslc_read", outcome))
           /\ IF outcome = "ok"
              THEN EnhGetAssetReturned(OslcMembers(resp.data)[1])
              ELSE /\ pc' = "enh_rest"
                   /\ UNCHANGED <<resolved, wire, result>>
    /\ chain_kind' = "read"
    /\ verify_reads' = CountVerifyRead
    /\ UNCHANGED <<inputs, phase, asset_href, success, created_assetnum, writes_sent>>

EnhGetAssetOslc ==
    /\ pc = "enh_oslc"
    /\ \E resp \in ReadResponses : EnhGetAssetOslcTaken(resp)
    /\ UNCHANGED aside

\* what get_asset does with the answer resp to its REST request
EnhGetAssetRestTaken(resp) ==
    /\ LET outcome == EnhGetAssetRestOutcome(resp)
       IN  /\ chain' = Append(chain, Attempt("rest_read", outcome))
           /\ IF outcome = "ok"
              THEN EnhGetAssetReturned(resp.data.member[1])
              ELSE EnhGetAssetRaised
    /\ verify_reads' = CountVerifyRead
    /\ UNCHANGED <<inputs, phase, asset_href, success, created_assetnum, chain_kind,
                   writes_sent>>

EnhGetAssetRest ==
    /\ pc = "enh_rest"
    /\ \E resp \in ReadResponses : EnhGetAssetRestTaken(resp)
    /\ UNCHANGED aside

\* the resource URI and the rowstamp are taken from the record, then the
\* write chain starts
EnhPrepare ==
    /\ pc = "enh_prepare"
    /\ pc' = "enh_w_oslc"
    /\ chain' = << >>
    /\ chain_kind' = "update"
    /\ UNCHANGED <<inputs, aside, phase, asset_href, success, created_assetnum, writes_sent,
                   verify_reads, resolved, wire, result>>

\* where the enhanced update goes once a write was accepted
EnhAfterAccepted(vf) == IF vf THEN "enh_settle" ELSE "done"

EnhUpdateOslc ==
    /\ pc = "enh_w_oslc"
    /\ \E code \in WriteResponses :
          LET outcome == EnhWriteOutcome(code)
          IN  /\ chain' = Append(chain, Attempt("oslc_patch", outcome))
              /\ success' = (outcome = "ok")
              /\ pc' = IF outcome = "ok" THEN EnhAfterAccepted(verify) ELSE "enh_w_rest"
              /\ result' = IF outcome = "ok" /\ ~verify THEN EnhNotVerified ELSE result
    /\ writes_sent' = writes_sent + 1
    /\ UNCHANGED <<inputs, aside, phase, asset_href, created_assetnum, chain_kind, verify_reads,
                   resolved, wire>>

EnhUpdateRest ==
    /\ pc = "enh_w_rest"
    /\ \E code \in WriteResponses :
          LET outcome == EnhWriteOutcome(code)
          IN  /\ chain' = Append(chain, Attempt("rest_change", outcome))
              /\ success' = (outcome = "ok")
              /\ pc' = IF outcome = "ok" THEN EnhAfterAccepted(verify) ELSE "done"
              /\ result' = IF outcome # "ok" THEN ResRaise("failed_to_update")
                           ELSE IF ~verify THEN EnhNotVerified
                           ELSE result
    /\ writes_sent' = writes_sent + 1
    /\ UNCHANGED <<inputs, aside, phase, asset_href, created_assetnum, chain_kind, verify_reads,
                   resolved, wire>>

\* time.sleep(2), then get_asset(refresh=True)
EnhSettle ==
    /\ pc = "enh_settle"
    /\ pc' = "enh_oslc"
    /\ phase' = "verify"
    /\ chain' = << >>
    /\ chain_kind' = "read"
    /\ UNCHANGED <<inputs, aside, asset_href, success, created_assetnum, writes_sent,
                   verify_reads, resolved, wire, result>>

(***************************************************************************)
(* list_assets                                                             *)
(***************************************************************************)
ListOslc ==
    /\ pc = "ls_oslc"
    /\ \E resp \in ReadResponses :
          LET outcome == ListOslcOutcome(resp)
          IN  /\ chain' = Append(chain, Attempt("oslc_read", outcome))
              /\ pc' = IF ListOslcReturns(outcome) THEN "done" ELSE "ls_rest"
              /\ result' = IF ListOslcReturns(outcome)
                           THEN ResValue(ListOslcValue(resp, fields_to_select))
                           ELSE result
              /\ wire' = IF ListOslcReturns(outcome) THEN OslcMembers(resp.data) ELSE wire
    /\ chain_kind' = "read"
    /\ UNCHANGED <<inputs, aside, phase, asset_href, success, created_assetnum, writes_sent,
                   verify_reads, resolved>>

ListRest ==
    /\ pc = "ls_rest"
    /\ \E resp \in ReadResponses :
          LET outcome == ListRestOutcome(resp)
          IN  /\ chain' = Append(chain, Attempt("rest_read", outcome))
              /\ result' = IF outcome = "ok" THEN ResValue(ListRestValue(resp))
                           ELSE ResValue(ListOf(<< >>))
              /\ wire' = IF outcome = "ok" THEN resp.data.member ELSE wire
    /\ pc' = "done"
    /\ UNCHANGED <<inputs, aside, phase, asset_href, success, created_assetnum, chain_kind,
                   writes_sent, verify_reads, resolved>>

(***************************************************************************)
(* MaximoAPIClient.create_asset                                            *)
(***************************************************************************)
\* a variant that starts over with the first strategy when the last one failed
AfterCreateFailedStartOver(strat) ==
    CASE strat = "oslc_create" -> "cr_rest"
      [] strat = "rest_add" -> "cr_direct"
      [] strat = "direct_post" -> "cr_oslc"

\* where create_asset goes when a strategy failed: the next strategy, or out
AfterCreateFailed(strat) ==
    CASE strat = "oslc_create" -> "cr_rest"
      [] strat = "rest_add" -> "cr_direct"
      [] strat = "direct_post" -> "done"

\* the request of one create strategy was answered with resp
CreateAnswered(strat, resp) ==
    LET outcome == CreateOutcome(resp)
        next == AfterCreateFailed(strat)
    IN  /\ chain' = Append(chain, Attempt(strat, outcome))
        /\ success' = (outcome = "ok")
        /\ created_assetnum' = IF outcome = "ok" THEN ParsedAssetnum(resp) ELSE None
        /\ pc' = IF outcome = "ok" THEN AfterCreated(ParsedAssetnum(resp)) ELSE next
        /\ result' = IF outcome # "ok" /\ next = "done" THEN ResNone ELSE result

\* one create strategy answered
CreateAttempt(strat) == \E resp \in CreateResponses : CreateAnswered(strat, resp)

CreateOslc ==
    /\ pc = "cr_oslc"
    /\ CreateAttempt("oslc_create")
    /\ chain_kind' = "create"
    /\ writes_sent' = writes_sent + 1
    /\ UNCHANGED <<inputs, aside, phase, asset_href, verify_reads, resolved, wire>>

CreateRest ==
    /\ pc = "cr_rest"
    /\ CreateAttempt("rest_add")
    /\ writes_sent' = writes_sent + 1
    /\ UNCHANGED <<inputs, aside, phase, asset_href, chain_kind, verify_reads, resolved, wire>>

CreateDirect ==
    /\ pc = "cr_direct"
    /\ CreateAttempt("direct_post")
    /\ writes_sent' = writes_sent + 1
    /\ UNCHANGED <<inputs, aside, phase, asset_href, chain_kind, verify_reads, resolved, wire>>

\* time.sleep(3) and the search for the record just created
CreateSearch ==
    /\ pc = "cr_search"
    /\ \E answer \in SearchResponses :
          /\ created_assetnum' = SearchedAssetnum(answer)
          /\ pc' = IF SearchedAssetnum(answer) # None THEN "cr_detail" ELSE "done"
          /\ result' = IF SearchedAssetnum(answer) # None THEN result
                       ELSE CreateResult(create_fields, None)
    /\ UNCHANGED <<inputs, aside, phase, asset_href, success, chain, chain_kind, writes_sent,
                   verify_reads, resolved, wire>>

\* time.sleep(1), then get_asset for the full record
CreateDetail ==
    /\ pc = "cr_detail"
    /\ pc' = "rd_oslc"
    /\ phase' = "detail"
    /\ chain' = << >>
    /\ chain_kind' = "read"
    /\ UNCHANGED <<inputs, aside, asset_href, success, created_assetnum, writes_sent,
                   verify_reads, resolved, wire, result>>

Next ==
    \/ Call
    \/ GetAssetOslc
    \/ GetAssetRest
    \/ LookupHref
    \/ UpdateAssetOslc
    \/ UpdateAssetRest
    \/ UpdateAssetSettle
    \/ GetLocationOslc
    \/ UpdateLocationOslc
    \/ UpdateLocationRest
    \/ EnhGetAssetOslc
    \/ EnhGetAssetRest
    \/ EnhPrepare
    \/ EnhUpdateOslc
    \/ EnhUpdateRest
    \/ EnhSettle
    \/ ListOslc
    \/ ListRest
    \/ CreateOslc
    \/ CreateRest
    \/ CreateDirect
    \/ CreateSearch
    \/ CreateDetail

Spec == Init /\ [][Next]_vars

(***************************************************************************)
(* Properties                                                              *)
(***************************************************************************)
Done == pc = "done"

\* strategy outcomes that are failures: a refused request or a raise
Failures == {"http_error", "exception"}

\* record rec holds value v for logical field f under some representation
Holds(rec, f, v) == \E i \in DOMAIN rec : Logical(rec[i].k) = f /\ rec[i].v = v

\* record rec holds logical field f under some representation
Present(rec, f) == \E i \in DOMAIN rec : Logical(rec[i].k) = f

\* the lookup priority of the design: exact, prefixed, then either in any case
PriorityLookup(rec, f) ==
    IF Has(rec, f) THEN [found |-> TRUE, v |-> Get(rec, f)]
    ELSE IF Has(rec, Spi(f)) THEN [found |-> TRUE, v |-> Get(rec, Spi(f))]
    ELSE IF HasCI(rec, KeyLower(f)) THEN [found |-> TRUE, v |-> GetCI(rec, KeyLower(f))]
    ELSE IF HasCI(rec, KeyLower(Spi(f)))
         THEN [found |-> TRUE, v |-> GetCI(rec, KeyLower(Spi(f)))]
    ELSE [found |-> FALSE, v |-> None]

\* an update call that ended after its verification read answered or failed
VerifyEnded == Done /\ phase = "verify" /\ op \in {"update_asset", "enh_update_asset"}

\* the returned value is the fully-verified outcome
FullyVerified(r) ==
    /\ r.kind = "dict"
    /\ \/ r.status = "success" /\ r.msg = "all_changes_verified"
       \/ r.verified = "True"

\* the verification read handed a record to the comparison
ReRead == wire # << >>

\* C1: update reports the fully-verified outcome only if every submitted
\* field was observed in the re-read record, under some representation, with
\* its submitted value.
C1_FullyVerifiedOnlyIfAllMatch ==
    (VerifyEnded /\ FullyVerified(result)) =>
        /\ ReRead
        /\ \A i \in DOMAIN update_data :
              Holds(wire[1], update_data[i].k, update_data[i].v)

\* the write was accepted and no read strategy of the verification returned
\* a usable list: not found, every strategy failed, or the read raised
VerifyReadFailed ==
    /\ Done /\ op = "update_asset" /\ phase = "verify"
    /\ \/ chain[Len(chain)].outcome # "ok"
       \/ result.error # "absent"

\* C2: when the write was accepted and the verification read failed,
\* update_asset's status differs from the status of a fully verified write
\* ("success").
C2_UnverifiableStatusDistinct ==
    VerifyReadFailed => result.status # "success"

\* the submitted fields the re-read record holds with another value only
Differing ==
    {i \in DOMAIN update_data :
        /\ Present(wire[1], update_data[i].k)
        /\ ~Holds(wire[1], update_data[i].k, update_data[i].v)}

\* C3: when the re-read record holds a submitted field with a different
\* value, update returns the partially-verified outcome and lists every
\* differing field as a mismatch with its expected and its observed value.
C3_PartialOutcomeListsMismatches ==
    (VerifyEnded /\ ReRead /\ Differing # {}) =>
        /\ result.status = "partial_success"
        /\ result.has_verification
        /\ \A i \in Differing :
              /\ ~result.verification[i].verified
              /\ result.verification[i].expected = update_data[i].v
              /\ Holds(wire[1], update_data[i].k, result.verification[i].actual)

\* C4: in every chain a strategy is invoked only after each strategy before
\* it ended in a refused request or a raise, and none after a success.
C4_NextStrategyOnlyAfterFailure ==
    \A i \in DOMAIN chain : i > 1 => chain[i - 1].outcome \in Failures

\* every strategy of a write chain was attempted and failed
WriteChainExhausted ==
    /\ Done /\ chain_kind \in {"update", "create"}
    /\ chain # << >>
    /\ \A i \in DOMAIN chain : chain[i].outcome \in Failures

\* C5: when every strategy of a chain failed, the caller gets an aggregate
\* failure that carries the diagnostics of the attempts.
C5_AggregateFailureCarriesDiagnostics ==
    WriteChainExhausted => (result.kind = "dict" /\ result.error # "absent")

\* C6: an update whose record does not resolve in the read before the write
\* ends at once with None or a raise and sends no write request.
C6_UnresolvedUpdateSendsNoWrite ==
    (op \in UpdateOps /\ resolved = "no") =>
        /\ writes_sent = 0
        /\ Done
        /\ result.kind \in {"None", "raise"}

\* an update_asset call ended because the record did not resolve
C6_Witness ==
    /\ Done /\ op = "update_asset" /\ resolved = "no"
    /\ Len(chain) = 2 /\ result = ResNone

\* C7: within one run of a chain no strategy is attempted twice.
C7_EachStrategyAtMostOnce ==
    \A i, j \in DOMAIN chain : chain[i].strat = chain[j].strat => i = j

\* a create chain that went through all three strategies
C7_Witness ==
    /\ Done /\ chain_kind = "create" /\ Len(chain) = 3
    /\ \A i \in DOMAIN chain : chain[i].outcome \in Failures

\* every read strategy of a fetch failed
FetchFailed ==
    /\ Done /\ op = "get_asset"
    /\ \A i \in DOMAIN chain : chain[i].outcome \in Failures

\* C8: a fetch whose read strategies all failed returns a value the caller
\* can tell from the one returned when the backend answered with no record
\* (the empty list).
C8_FailureDistinctFromNotFound ==
    FetchFailed => result # ResValue(ListOf(<< >>))

\* the call reports success to its caller
ReportsSuccess(r) == r.kind = "dict" /\ (r.status = "success" \/ r.success = "True")

\* C9: no update, of an asset or of a location, reports an accepted write
\* as success without a re-read after the write.
C9_SuccessOnlyAfterReRead ==
    (Done /\ op \in UpdateOps /\ success /\ ReportsSuccess(result)) => verify_reads > 0

\* the logical fields a fetch or a list was asked for
Requested(default) ==
    LET sel == SelectedOrDefault(fields_to_select, default)
    IN  {sel[i] : i \in DOMAIN sel} \cap LogicalFields

\* the records returned by a fetch or a list surface, for every requested
\* field, the value of the highest-priority key of the wire record
SurfacedByPriority(default) ==
    result.kind = "list" =>
        \A i \in DOMAIN result.value : \A f \in Requested(default) :
            PriorityLookup(result.value[i], f) = PriorityLookup(wire[i], f)

\* C10: fetch, list and write verification all surface, for a logical
\* field, the value of the wire record's highest-priority key: exact,
\* prefixed, case-insensitive exact, case-insensitive prefixed.
C10_LookupPriorityEverywhere ==
    /\ (Done /\ op = "get_asset") => SurfacedByPriority(DefaultAssetFields)
    /\ (Done /\ op = "list_assets") => SurfacedByPriority(DefaultListFields)
    /\ (VerifyEnded /\ ReRead /\ op = "update_asset" /\ result.has_verification) =>
          \A i \in DOMAIN update_data :
              result.verification[i].actual = PriorityLookup(wire[1], update_data[i].k).v
    /\ (VerifyEnded /\ ReRead /\ op = "enh_update_asset") =>
          (result.verified = "True" <=>
              \A i \in DOMAIN update_data :
                  PriorityLookup(wire[1], update_data[i].k).v = update_data[i].v)

\* record rec holds exactly one key that stands for logical field f
ExactlyOneKey(rec, f) == Cardinality({i \in DOMAIN rec : Logical(rec[i].k) = f}) = 1

\* the value of the only key of rec that stands for f
OnlyValue(rec, f) == rec[CHOOSE i \in DOMAIN rec : Logical(rec[i].k) = f].v

\* C11: when the re-read record holds exactly one key for a submitted field
\* (exact, prefixed, or a case variant of either), the lookup of write
\* verification returns that key's value.
C11_SingleKeyLookupAnyRepresentation ==
    /\ (VerifyEnded /\ ReRead /\ op = "update_asset" /\ result.has_verification) =>
          \A i \in DOMAIN update_data :
              ExactlyOneKey(wire[1], update_data[i].k) =>
                  result.verification[i].actual = OnlyValue(wire[1], update_data[i].k)
    /\ (VerifyEnded /\ ReRead /\ op = "enh_update_asset"
            /\ \A i \in DOMAIN update_data : ExactlyOneKey(wire[1], update_data[i].k)) =>
          (result.verified = "True" <=>
              \A i \in DOMAIN update_data :
                  OnlyValue(wire[1], update_data[i].k) = update_data[i].v)


(***************************************************************************)
(* Text as tokens: the quote, the blank and the comma are tokens of their  *)
(* own, so that split, strip, join, replace and quoting are computed.      *)
(***************************************************************************)
\* longest assetnum argument, in tokens
MaxKeyLen == 3
\* largest number of entries in a search_criteria dict
MaxCriteria == 2

Quote == "\""
Space == " "
Comma == ","

\* tok in s
Contains(s, tok) == \E i \in DOMAIN s : s[i] = tok

\* sub in s, for a text sub of several tokens
ContainsSeq(s, sub) ==
    \E i \in 1..(Len(s) - Len(sub) + 1) : SubSeq(s, i, i + Len(sub) - 1) = sub

\* s.split(sep)
RECURSIVE Split(_, _)
Split(s, sep) ==
    IF ~Contains(s, sep) THEN <<s>>
    ELSE LET i == CHOOSE x \in DOMAIN s : s[x] = sep /\ \A y \in 1..(x - 1) : s[y] # sep
         IN  <<SubSeq(s, 1, i - 1)>> \o Split(SubSeq(s, i + 1, Len(s)), sep)

\* s.replace(tok, by)
RECURSIVE Replace(_, _, _)
Replace(s, tok, by) ==
    IF s = << >> THEN << >>
    ELSE (IF Head(s) = tok THEN by ELSE <<Head(s)>>) \o Replace(Tail(s), tok, by)

RECURSIVE LStrip(_)
LStrip(s) == IF s # << >> /\ Head(s) = Space THEN LStrip(Tail(s)) ELSE s

RECURSIVE RStrip(_)
RStrip(s) ==
    IF s # << >> /\ s[Len(s)] = Space THEN RStrip(SubSeq(s, 1, Len(s) - 1)) ELSE s

\* a variant that drops every blank, inner ones too
StripEveryBlank(s) == Replace(s, Space, << >>)

\* s.strip()
Strip(s) == RStrip(LStrip(s))

\* sep.join(parts)
RECURSIVE Join(_, _)
Join(parts, sep) ==
    IF parts = << >> THEN << >>
    ELSE IF Len(parts) = 1 THEN parts[1]
    ELSE parts[1] \o sep \o Join(Tail(parts), sep)

\* a variant that escapes embedded quotes
QuotedEscaping(s) == <<Quote>> \o Replace(s, Quote, <<"\\", Quote>>) \o <<Quote>>

\* f'"{s}"'
Quoted(s) == <<Quote>> \o s \o <<Quote>>

(***************************************************************************)
(* MaximoAPIClient.get_asset: the oslc.where text of its two requests      *)
(***************************************************************************)
GetAssetOslcWhere(asset_num, site) ==
    LET key == IF Contains(asset_num, Comma)
               THEN LET parts == Split(asset_num, Comma)
                        asset_list == [i \in DOMAIN parts |-> Quoted(Strip(parts[i]))]
                    IN  <<"spi:", "assetnum", Space, "in", Space, "[">>
                            \o Join(asset_list, <<Comma>>) \o <<"]">>
               ELSE <<"spi:", "assetnum", "=">> \o Quoted(Strip(asset_num))
    IN  IF site # << >>
        THEN key \o <<Space, "and", Space, "spi:", "siteid", "=">> \o Quoted(site)
        ELSE key

GetAssetRestWhere(asset_num, site) ==
    LET key == IF Contains(asset_num, Comma)
               THEN LET parts == Split(asset_num, Comma)
                        asset_list == [i \in DOMAIN parts |-> Quoted(Strip(parts[i]))]
                    IN  <<"assetnum", Space, "in", Space, "[">>
                            \o Join(asset_list, <<Comma>>) \o <<"]">>
               ELSE <<"assetnum", "=">> \o Quoted(Strip(asset_num))
    IN  IF site # << >>
        THEN key \o <<Space, "and", Space, "siteid", "=">> \o Quoted(site)
        ELSE key

(***************************************************************************)
(* list_assets: the where clause built from a search_criteria dict with    *)
(* string values, and what each strategy sends                             *)
(***************************************************************************)
\* one condition: a wildcard value becomes a like, any other an equality
ListCondition(field, value) ==
    IF Contains(value, "*")
    THEN field \o <<Space, "like", Space>> \o Quoted(Replace(value, "*", <<"%">>))
    ELSE field \o <<"=">> \o Quoted(value)

ListWhereClause(criteria) ==
    Join([i \in DOMAIN criteria |-> ListCondition(criteria[i].k, criteria[i].v)],
         <<Space, "and", Space>>)

\* the field names list_assets prefixes for the OSLC request
ListPrefixedFields ==
    <<"status", "siteid", "description", "location", "assettype", "assetnum">>

RECURSIVE ListPrefixFields(_, _)
ListPrefixFields(oslc_where, fields) ==
    IF fields = << >> THEN oslc_where
    ELSE LET field == Head(fields)
         IN  ListPrefixFields(
                 IF Contains(oslc_where, field)
                        /\ ~ContainsSeq(oslc_where, <<"spi:", field>>)
                 THEN Replace(oslc_where, field, <<"spi:", field>>)
                 ELSE oslc_where,
                 Tail(fields))

ListOslcWhere(criteria) == ListPrefixFields(ListWhereClause(criteria), ListPrefixedFields)

ListRestWhere(criteria) == ListWhereClause(criteria)

(***************************************************************************)
(* The filters of get_asset and list_assets for every key and criteria     *)
(***************************************************************************)
KeyTokens == {"A1", "A2", Comma, Space, Quote}

\* the assetnum arguments: one value, several values, padded and quoted ones
AssetnumStrings == UNION {[1..n -> KeyTokens] : n \in 1..MaxKeyLen}

Sites == {<< >>, <<"BEDFORD">>}

CriteriaFields == {<<"status">>, <<"description">>, <<"calnum">>}
CriteriaValues == {<<"ACTIVE">>, <<"status">>, <<"PUMP", "*">>}
Criteria == DictsOver(CriteriaFields, CriteriaValues, MaxCriteria)

filter_vars == <<assetnum, siteid, search_criteria, where_clause>>
create_vars == <<create_fields, payload>>
read_vars == <<response, members>>
config_vars == <<host, api_key, credentials, client, config>>

FilterInit ==
    /\ CallIdle
    /\ strategy = "none"
    /\ where_clause = << >>
    /\ \/ /\ assetnum \in AssetnumStrings
          /\ siteid \in Sites
          /\ search_criteria = << >>
       \/ /\ assetnum = << >>
          /\ siteid = << >>
          /\ search_criteria \in Criteria
    /\ create_fields = << >>
    /\ payload = << >>
    /\ response = [code |-> 0, body |-> "none", data |-> NoData]
    /\ members = NoMembers
    /\ host = << >>
    /\ api_key = << >>
    /\ credentials = "none"
    /\ client = "none"
    /\ config = NoConfig
    /\ ThreadsIdle
    /\ RequestIdle

BuildGetAssetOslc ==
    /\ assetnum # << >>
    /\ strategy' = "get_asset_oslc"
    /\ where_clause' = GetAssetOslcWhere(assetnum, siteid)
    /\ UNCHANGED <<call_vars, thread_vars, request, assetnum, siteid, search_criteria,
                   create_vars, read_vars,
                   config_vars>>

BuildGetAssetRest ==
    /\ assetnum # << >>
    /\ strategy' = "get_asset_rest"
    /\ where_clause' = GetAssetRestWhere(assetnum, siteid)
    /\ UNCHANGED <<call_vars, thread_vars, request, assetnum, siteid, search_criteria,
                   create_vars, read_vars,
                   config_vars>>

BuildListOslc ==
    /\ assetnum = << >>
    /\ strategy' = "list_oslc"
    /\ where_clause' = ListOslcWhere(search_criteria)
    /\ UNCHANGED <<call_vars, thread_vars, request, assetnum, siteid, search_criteria,
                   create_vars, read_vars,
                   config_vars>>

BuildListRest ==
    /\ assetnum = << >>
    /\ strategy' = "list_rest"
    /\ where_clause' = ListRestWhere(search_criteria)
    /\ UNCHANGED <<call_vars, thread_vars, request, assetnum, siteid, search_criteria,
                   create_vars, read_vars,
                   config_vars>>

FilterNext ==
    \/ BuildGetAssetOslc
    \/ BuildGetAssetRest
    \/ BuildListOslc
    \/ BuildListRest

FilterSpec == FilterInit /\ [][FilterNext]_vars


(***************************************************************************)
(* Properties of the filters                                               *)
(***************************************************************************)
\* a value between double quotes, its own quotes left as they are
InQuotes(v) == <<Quote>> \o v \o <<Quote>>

\* the values of a key: the comma-separated parts, without surrounding blanks
KeyValues(a) == LET parts == Split(a, Comma) IN [i \in DOMAIN parts |-> Strip(parts[i])]

\* the number of quote tokens in a text
RECURSIVE Quotes(_)
Quotes(s) ==
    IF s = << >> THEN 0 ELSE (IF Head(s) = Quote THEN 1 ELSE 0) + Quotes(Tail(s))

\* field="value" or field in ["v1","v2",...], then the site condition
ExpectedKeyFilter(field, sitefield, a, s) ==
    LET vs == KeyValues(a)
        key == IF Len(vs) = 1 THEN field \o <<"=">> \o InQuotes(vs[1])
               ELSE field \o <<Space, "in", Space, "[">>
                        \o Join([i \in DOMAIN vs |-> InQuotes(vs[i])], <<Comma>>)
                        \o <<"]">>
    IN  IF s = << >> THEN key
        ELSE key \o <<Space, "and", Space>> \o sitefield \o <<"=">> \o InQuotes(s)

\* one of get_asset's two requests was built
KeyFilterBuilt == strategy \in {"get_asset_oslc", "get_asset_rest"}

\* C12: the filter for a key is field="value" for one value and
\* field in ["v1","v2",...] for comma-separated values, the site condition
\* joined by ' and '; every value is double-quoted and no quote is escaped.
C12_KeyFilterShape ==
    /\ strategy = "get_asset_oslc" =>
          where_clause = ExpectedKeyFilter(<<"spi:", "assetnum">>, <<"spi:", "siteid">>,
                                           assetnum, siteid)
    /\ strategy = "get_asset_rest" =>
          where_clause = ExpectedKeyFilter(<<"assetnum">>, <<"siteid">>, assetnum, siteid)
    /\ KeyFilterBuilt =>
          /\ ~Contains(where_clause, "\\")
          /\ Quotes(where_clause) =
                 Quotes(assetnum) + 2 * Len(KeyValues(assetnum))
                     + (IF siteid = << >> THEN 0 ELSE 2)

\* a filter for several values, one with a quote inside, and a site
C12_Witness ==
    /\ strategy = "get_asset_oslc"
    /\ Contains(assetnum, Comma) /\ Contains(assetnum, Quote)
    /\ siteid # << >>

\* the OSLC filter list_assets should send: every field name prefixed once
ExpectedListOslcWhere(criteria) ==
    Join([i \in DOMAIN criteria |-> ListCondition(Spi(criteria[i].k), criteria[i].v)],
         <<Space, "and", Space>>)

\* C13: every field name of an OSLC filter carries the spi: prefix exactly
\* once and no value is altered by the prefixing; no field name of a REST
\* filter carries it; for key lookups and for list filters alike.
C13_PrefixFieldNamesOnly ==
    /\ strategy = "get_asset_oslc" =>
          Replace(where_clause, "spi:", << >>) = GetAssetRestWhere(assetnum, siteid)
    /\ strategy = "list_oslc" => where_clause = ExpectedListOslcWhere(search_criteria)
    /\ strategy \in {"get_asset_rest", "list_rest"} => ~Contains(where_clause, "spi:")

\* the field and the value a filter of the form field="value" states, the
\* field without its prefix
ParseFilter(where) ==
    LET eq == CHOOSE x \in DOMAIN where :
                  where[x] = "=" /\ \A y \in 1..(x - 1) : where[y] # "="
        field == SubSeq(where, 1, eq - 1)
    IN  [field |-> IF field # << >> /\ Head(field) = "spi:" THEN Tail(field) ELSE field,
         value |-> SubSeq(where, eq + 2, Len(where) - 1)]

\* a key of one field whose value has no comma and no quote
PlainSingleKey ==
    /\ KeyFilterBuilt
    /\ siteid = << >>
    /\ ~Contains(assetnum, Comma) /\ ~Contains(assetnum, Quote)

\* the value begins or ends with a blank
Padded(a) == a # << >> /\ (Head(a) = Space \/ a[Len(a)] = Space)

\* C14 as stated: for a key of one field and a value without special
\* characters, parsing the filter gives back the field and the value.
C14_FilterRoundTrips ==
    PlainSingleKey =>
        ParseFilter(where_clause) = [field |-> <<"assetnum">>, value |-> assetnum]

\* C14, amended: the same for a value that also has no blank at either end.
C14_FilterRoundTripsUnpadded ==
    (PlainSingleKey /\ ~Padded(assetnum)) =>
        ParseFilter(where_clause) = [field |-> <<"assetnum">>, value |-> assetnum]

\* the OSLC filter of a value with a blank inside
C14_Witness ==
    /\ PlainSingleKey /\ strategy = "get_asset_oslc"
    /\ ~Padded(assetnum) /\ Contains(assetnum, Space)


(***************************************************************************)
(* The read strategies, each applied to every answer                       *)
(***************************************************************************)
\* the records a strategy took from the answer when its outcome is ok
Extracted(outcome, records) ==
    [outcome |-> outcome, records |-> IF outcome = "ok" THEN records ELSE << >>]

ReadInit ==
    /\ CallIdle
    /\ strategy = "none"
    /\ assetnum = << >>
    /\ siteid = << >>
    /\ search_criteria = << >>
    /\ where_clause = << >>
    /\ create_fields = << >>
    /\ payload = << >>
    /\ response \in ReadResponses
    /\ members = NoMembers
    /\ host = << >>
    /\ api_key = << >>
    /\ credentials = "none"
    /\ client = "none"
    /\ config = NoConfig
    /\ ThreadsIdle
    /\ RequestIdle

\* one read strategy receives the answer
ReadBy(outcome, records) ==
    /\ members' = Extracted(outcome, records)
    /\ UNCHANGED <<call_vars, thread_vars, request, filter_vars, create_vars, response,
                   config_vars>>

ReadGetAssetOslc ==
    /\ strategy' = "get_asset_oslc"
    /\ ReadBy(GetAssetOslcOutcome(response), OslcMembers(response.data))

ReadGetAssetRest ==
    /\ strategy' = "get_asset_rest"
    /\ ReadBy(GetAssetRestOutcome(response), response.data.member)

ReadGetLocationOslc ==
    /\ strategy' = "get_location_oslc"
    /\ ReadBy(GetLocationOslcOutcome(response), OslcMembers(response.data))

ReadListOslc ==
    /\ strategy' = "list_oslc"
    /\ ReadBy(ListOslcOutcome(response), OslcMembers(response.data))

ReadListRest ==
    /\ strategy' = "list_rest"
    /\ ReadBy(ListRestOutcome(response), response.data.member)

ReadEnhOslc ==
    /\ strategy' = "enh_get_asset_oslc"
    /\ ReadBy(EnhGetAssetOslcOutcome(response), OslcMembers(response.data))

ReadEnhRest ==
    /\ strategy' = "enh_get_asset_rest"
    /\ ReadBy(EnhGetAssetRestOutcome(response), response.data.member)

ReadNext ==
    \/ ReadGetAssetOslc
    \/ ReadGetAssetRest
    \/ ReadGetLocationOslc
    \/ ReadListOslc
    \/ ReadListRest
    \/ ReadEnhOslc
    \/ ReadEnhRest

ReadSpec == ReadInit /\ [][ReadNext]_vars

\* a 200 answer with a JSON object
JsonAnswer == response.code = 200 /\ response.body = "json"

\* the value under the first envelope key the answer has: "member", else
\* "rdfs:member", else nothing
FirstEnvelope(data) ==
    IF data.has_member THEN data.member
    ELSE IF data.has_rdfs THEN data.rdfs
    ELSE << >>

\* C15: every read strategy takes the records from "member" or, without
\* it, from "rdfs:member"; an answer with neither key gives an empty
\* result, not an error.
C15_BothEnvelopeKeysChecked ==
    (strategy # "none" /\ JsonAnswer) =>
        /\ FirstEnvelope(response.data) # << >> =>
              (members.outcome = "ok" /\ members.records = FirstEnvelope(response.data))
        /\ (~response.data.has_member /\ ~response.data.has_rdfs) =>
              members.outcome = "empty"


(***************************************************************************)
(* The comparison of write verification for values of different types.     *)
(* "5" is the string 5 and "#5" the number 5: Python's == tells them       *)
(* apart, str() maps both to the same text.                                *)
(***************************************************************************)
TypedValues == {"5", "#5", "ACTIVE"}

\* str(v)
Str(v) == IF v = "#5" THEN "5" ELSE v

\* submitted FieldSets and re-read records over the typed values; the
\* records use the exact and the prefixed key only
TypedFieldSets == DictsOver(LogicalFields, TypedValues, MaxFields) \ {<< >>}
TypedRecords ==
    DictsOver(UNION {{f, Spi(f)} : f \in LogicalFields}, TypedValues, MaxRecLen)

\* the answer of the verification read that carries record rec
VerifyAnswer(rec) ==
    [code |-> 200, body |-> "json",
     data |-> [has_member |-> TRUE, member |-> <<rec>>, has_rdfs |-> FALSE, rdfs |-> << >>]]

VerifyInit ==
    /\ op \in {"update_asset", "enh_update_asset"}
    /\ pc = "compare"
    /\ phase = "verify"
    /\ update_data \in TypedFieldSets
    /\ fields_to_select = << >>
    /\ verify = TRUE
    /\ asset_href = "none"
    /\ success = TRUE
    /\ created_assetnum = None
    /\ chain = << >>
    /\ chain_kind = "read"
    /\ writes_sent = 1
    /\ verify_reads = 1
    /\ resolved = "yes"
    /\ wire \in {<<rec>> : rec \in TypedRecords}
    /\ result = Blank
    /\ AsideIdle

\* update_asset compares against the record as get_asset's OSLC strategy
\* returned it
CompareOslcRead ==
    /\ pc = "compare" /\ op = "update_asset"
    /\ pc' = "done"
    /\ chain' = <<Attempt("oslc_read", "ok")>>
    /\ result' = UpdateAssetVerified(update_data,
                     GetAssetOslcValue(VerifyAnswer(wire[1]), FieldsToRequest(update_data)))
    /\ UNCHANGED <<inputs, aside, phase, asset_href, success, created_assetnum, chain_kind,
                   writes_sent, verify_reads, resolved, wire>>

\* update_asset compares against the record as the REST strategy returned it
CompareRestRead ==
    /\ pc = "compare" /\ op = "update_asset"
    /\ pc' = "done"
    /\ chain' = <<Attempt("oslc_read", "http_error"), Attempt("rest_read", "ok")>>
    /\ result' = UpdateAssetVerified(update_data, GetAssetRestValue(VerifyAnswer(wire[1])))
    /\ UNCHANGED <<inputs, aside, phase, asset_href, success, created_assetnum, chain_kind,
                   writes_sent, verify_reads, resolved, wire>>

\* EnhancedMaximoClient.update_asset compares against the record get_asset
\* returned
CompareEnh ==
    /\ pc = "compare" /\ op = "enh_update_asset"
    /\ pc' = "done"
    /\ chain' = <<Attempt("oslc_read", "ok")>>
    /\ result' = EnhVerified(update_data, wire[1])
    /\ UNCHANGED <<inputs, aside, phase, asset_href, success, created_assetnum, chain_kind,
                   writes_sent, verify_reads, resolved, wire>>

VerifyNext ==
    \/ CompareOslcRead
    \/ CompareRestRead
    \/ CompareEnh

VerifySpec == VerifyInit /\ [][VerifyNext]_vars

\* submitted field i is held by exactly one key of the re-read record, with
\* a value of the same text as the submitted one
SameText(i) ==
    /\ ExactlyOneKey(wire[1], update_data[i].k)
    /\ Str(OnlyValue(wire[1], update_data[i].k)) = Str(update_data[i].v)

\* C16: a submitted field whose observed and expected values have the same
\* string form is classified as verified, whatever their types.
C16_StringNormalizedEquality ==
    /\ (VerifyEnded /\ op = "update_asset" /\ result.has_verification) =>
          \A i \in DOMAIN update_data : SameText(i) => result.verification[i].verified
    /\ (VerifyEnded /\ op = "enh_update_asset"
            /\ \A i \in DOMAIN update_data : SameText(i)) =>
          result.verified = "True"


(***************************************************************************)
(* create_asset: the JSON body of each create request                      *)
(***************************************************************************)
\* largest number of entries in an asset_data dict
MaxCreateFields == 2

\* payload[k] = v for every entry, in order
RECURSIVE PutAll(_, _)
PutAll(pl, entries) ==
    IF entries = << >> THEN pl
    ELSE PutAll(Put(pl, Head(entries).k, Head(entries).v), Tail(entries))

\* key.lower() not in ["siteid", "assetnum"]
NotSiteOrAssetnum(key) == KeyLower(key) \notin {<<"siteid">>, <<"assetnum">>}

\* the entries of create_fields the three methods send
SentFields(fields) == SelectSeq(fields, LAMBDA e : NotSiteOrAssetnum(e.k))

\* Method 1: spi:-prefixed keys
CreateOslcPayload(site, fields) ==
    LET sent == SentFields(fields)
    IN  PutAll(<<[k |-> <<"spi:", "siteid">>, v |-> site]>>,
               [i \in DOMAIN sent |-> [k |-> Spi(sent[i].k), v |-> sent[i].v]])

\* Method 2: upper-case keys inside the ASSET wrapper
CreateRestPayload(site, fields) ==
    LET sent == SentFields(fields)
    IN  PutAll(<<[k |-> <<"SITEID">>, v |-> site]>>,
               [i \in DOMAIN sent |-> [k |-> KeyUpper(sent[i].k), v |-> sent[i].v]])

\* Method 3: lower-case keys
CreateDirectPayload(site, fields) ==
    LET sent == SentFields(fields)
    IN  PutAll(<<[k |-> <<"siteid">>, v |-> site]>>,
               [i \in DOMAIN sent |-> [k |-> KeyLower(sent[i].k), v |-> sent[i].v]])

\* maximo_api_agent._create_asset_oslc: every key but siteid, prefixed
\* unless it already starts with spi:
AgentOslcName(key) == IF key # << >> /\ Head(key) = "spi:" THEN key ELSE Spi(key)

AgentCreateOslcPayload(site, fields) ==
    LET sent == SelectSeq(fields, LAMBDA e : e.k # <<"siteid">>)
    IN  PutAll(<<[k |-> <<"spi:", "siteid">>, v |-> site]>>,
               [i \in DOMAIN sent |-> [k |-> AgentOslcName(sent[i].k), v |-> sent[i].v]])

\* the keys and values a caller may put into asset_data
CreateKeys ==
    {<<"description">>, <<"assetnum">>, <<"ASSETNUM">>, <<"spi:", "assetnum">>,
     <<"siteid">>}
CreateValues == {<<"PUMP">>, <<"A1">>}
CreateFieldSets == DictsOver(CreateKeys, CreateValues, MaxCreateFields)

PayloadInit ==
    /\ CallIdle
    /\ strategy = "none"
    /\ assetnum = << >>
    /\ siteid \in Sites
    /\ search_criteria = << >>
    /\ where_clause = << >>
    /\ create_fields \in CreateFieldSets
    /\ payload = << >>
    /\ response = [code |-> 0, body |-> "none", data |-> NoData]
    /\ members = NoMembers
    /\ host = << >>
    /\ api_key = << >>
    /\ credentials = "none"
    /\ client = "none"
    /\ config = NoConfig
    /\ ThreadsIdle
    /\ RequestIdle

\* create_asset returns None without a request when siteid is missing
BuildCreate(pl) ==
    /\ siteid # << >>
    /\ payload' = pl
    /\ UNCHANGED <<call_vars, thread_vars, request, filter_vars, create_fields, read_vars,
                   config_vars>>

BuildCreateOslc ==
    /\ strategy' = "oslc_create"
    /\ BuildCreate(CreateOslcPayload(siteid, create_fields))

BuildCreateRest ==
    /\ strategy' = "rest_add"
    /\ BuildCreate(CreateRestPayload(siteid, create_fields))

BuildCreateDirect ==
    /\ strategy' = "direct_post"
    /\ BuildCreate(CreateDirectPayload(siteid, create_fields))

BuildAgentCreateOslc ==
    /\ strategy' = "agent_oslc_create"
    /\ BuildCreate(AgentCreateOslcPayload(siteid, create_fields))

PayloadNext ==
    \/ BuildCreateOslc
    \/ BuildCreateRest
    \/ BuildCreateDirect
    \/ BuildAgentCreateOslc

PayloadSpec == PayloadInit /\ [][PayloadNext]_vars

\* C17: no create request carries the primary identifier, assetnum in any
\* representation, whatever the caller supplied.
C17_NoIdentifierInCreateRequest ==
    \A i \in DOMAIN payload : Logical(payload[i].k) # <<"assetnum">>


(***************************************************************************)
(* MaximoAPIClient.create_asset, called with a site and asset data         *)
(***************************************************************************)
\* asset_data of the calls studied: a description, an asset number of the
\* caller's own, both or neither
CreateCallFields ==
    {f \in CreateFieldSets :
        \A i \in DOMAIN f :
            \/ f[i].k = <<"description">> /\ f[i].v = <<"PUMP">>
            \/ f[i].k = <<"assetnum">> /\ f[i].v = <<"A1">>}

CreateInit ==
    /\ CallIdle
    /\ siteid \in Sites
    /\ create_fields \in CreateCallFields
    /\ strategy = "none"
    /\ assetnum = << >>
    /\ search_criteria = << >>
    /\ where_clause = << >>
    /\ payload = << >>
    /\ response = [code |-> 0, body |-> "none", data |-> NoData]
    /\ members = NoMembers
    /\ host = << >>
    /\ api_key = << >>
    /\ credentials = "none"
    /\ client = "none"
    /\ config = NoConfig
    /\ ThreadsIdle
    /\ RequestIdle

\* create_asset is entered; without a site it returns None at once
CreateCall ==
    /\ pc = "idle"
    /\ op' = "create_asset"
    /\ pc' = IF siteid = << >> THEN "done" ELSE "cr_oslc"
    /\ result' = IF siteid = << >> THEN ResNone ELSE result
    /\ UNCHANGED <<aside, phase, update_data, fields_to_select, verify, asset_href, success,
                   created_assetnum, chain, chain_kind, writes_sent, verify_reads, resolved,
                   wire>>

CreateNext ==
    \/ CreateCall
    \/ CreateOslc
    \/ CreateRest
    \/ CreateDirect
    \/ CreateSearch
    \/ CreateDetail
    \/ GetAssetOslc
    \/ GetAssetRest

CreateSpec == CreateInit /\ [][CreateNext]_vars

\* the fallback search of a create call ran: a strategy was accepted and the asset
\* number is the search's or still unknown
SearchRan ==
    /\ op = "create_asset"
    /\ success
    /\ created_assetnum \in {None, "FOUND"}

\* the result's "assetnum" entry, "absent" without one
CarriesAssetnum(res) ==
    \/ res.assetnum # "absent"
    \/ Has(res.fields, <<"assetnum">>)

\* C18: after an accepted create whose response omitted the identifier and the
\* fallback search, the call returns a result carrying a ResourceKey or a
\* partial_success result without identifier, and never an unhandled error.
C18_FallbackEndsInKeyOrPartialSuccess ==
    (pc = "done" /\ SearchRan) =>
        /\ result.kind \in {"dict", "record"}
        /\ \/ result.assetnum # "absent"
           \/ result.status = "partial_success" /\ ~CarriesAssetnum(result)


(***************************************************************************)
(* MaximoAPIClient.__init__ and EnhancedMaximoClient.__init__              *)
(*   host and api_key are token sequences; << >> is the empty string, and  *)
(*   NoneText stands for Python's None.                                    *)
(***************************************************************************)
NoneText == <<None>>

\* MAXIMO_HOST and API_KEY when the environment does not set them
DefaultHost == <<"YOUR_MAXIMO_HOST_HERE">>
DefaultApiKey == <<"YOUR_MAXIMO_API_KEY_HERE">>

Hosts ==
    {NoneText, << >>, <<"https://", "your.maximo.com">>, DefaultHost,
     <<"maximo host">>, <<"https://", "maximo.example.com", "/">>}

ApiKeys ==
    {NoneText, << >>, <<"apikey">>, <<"your_long_api_key", "_here">>, DefaultApiKey,
     <<"pk4r5qvq">>}

\* which of user and password are given
Credentials == {"none", "user", "password", "both"}

\* Python's truth value of a str or None
TruthyText(t) == t # NoneText /\ t # << >>

\* MaximoAPIClient.__init__: the exception raised, or "constructed"
Construct(h, key, cred) ==
    IF ~TruthyText(h) \/ Contains(h, "your.maximo.com") THEN "ValueError"
    ELSE IF TruthyText(key)
         THEN IF Contains(key, "your_long_api_key") \/ key = <<"apikey">>
              THEN "ValueError" ELSE "constructed"
         ELSE IF cred # "both" THEN "ValueError" ELSE "constructed"

\* EnhancedMaximoClient.__init__: host.rstrip('/') comes first
EnhConstruct(h, key, cred) ==
    IF h = NoneText THEN "AttributeError"
    ELSE IF TruthyText(key) \/ cred = "both" THEN "constructed"
    ELSE "ValueError"

ConfigInit ==
    /\ CallIdle
    /\ host \in Hosts
    /\ api_key \in ApiKeys
    /\ credentials \in Credentials
    /\ client = "none"
    /\ config = NoConfig
    /\ ThreadsIdle
    /\ RequestIdle
    /\ strategy = "none"
    /\ assetnum = << >>
    /\ siteid = << >>
    /\ search_criteria = << >>
    /\ where_clause = << >>
    /\ create_fields = << >>
    /\ payload = << >>
    /\ response = [code |-> 0, body |-> "none", data |-> NoData]
    /\ members = NoMembers

NewMaximoAPIClient ==
    /\ client = "none"
    /\ client' = Construct(host, api_key, credentials)
    /\ strategy' = "MaximoAPIClient"
    /\ UNCHANGED <<call_vars, thread_vars, request, filter_vars, create_vars, read_vars, host,
                   api_key,
                   credentials, config>>

NewEnhancedMaximoClient ==
    /\ client = "none"
    /\ client' = EnhConstruct(host, api_key, credentials)
    /\ strategy' = "EnhancedMaximoClient"
    /\ UNCHANGED <<call_vars, thread_vars, request, filter_vars, create_vars, read_vars, host,
                   api_key,
                   credentials, config>>

\* a method of a constructed client sends its first request
FirstRequest ==
    /\ client = "constructed"
    /\ client' = "requesting"
    /\ UNCHANGED <<call_vars, thread_vars, request, filter_vars, create_vars, read_vars,
                   strategy, host, api_key,
                   credentials, config>>

ConfigNext ==
    \/ NewMaximoAPIClient
    \/ NewEnhancedMaximoClient
    \/ FirstRequest

ConfigSpec == ConfigInit /\ [][ConfigNext]_vars

\* the host is missing, malformed or a placeholder
UnusableHost ==
    \/ host \in {NoneText, << >>}
    \/ host = DefaultHost
    \/ Contains(host, "your.maximo.com")
    \/ Head(host) # "https://"

\* the credential is missing or a placeholder
UnusableCredential ==
    IF api_key \in {NoneText, << >>}
    THEN credentials # "both"
    ELSE \/ api_key = DefaultApiKey
         \/ api_key = <<"apikey">>
         \/ Contains(api_key, "your_long_api_key")

\* C19: with a missing, malformed or placeholder host or credential, the
\* module's default placeholders included, construction fails, so no client
\* exists and no request is ever attempted.
C19_BadConfigurationFailsFast ==
    (client # "none" /\ (UnusableHost \/ UnusableCredential)) =>
        client \notin {"constructed", "requesting"}


(***************************************************************************)
(* Two MaximoAPIClient.update_asset calls at once on one client            *)
(*   update_asset and the methods it calls assign no attribute of self and *)
(*   no module variable: assets, asset_href, success, update_data and the  *)
(*   rest are local variables, and every request names the call's own      *)
(*   assetnum.  A step is one request or the sleep between write and       *)
(*   re-read; the two calls' steps interleave freely.                      *)
(***************************************************************************)
Callers == {1, 2}

\* the assetnum argument of each call: two different keys
CallerKey(c) == IF c = 1 THEN "A1" ELSE "A2"

\* what the two calls submit
CallerFieldSets ==
    {<<[k |-> <<"status">>, v |-> "ACTIVE"]>>, <<[k |-> <<"status">>, v |-> None]>>}

\* the answers the backend gives in this study
CallerRecords == {<<[k |-> <<"status">>, v |-> s]>> : s \in StoredValues}

CallerReads ==
    {resp \in ReadResponses :
        \/ resp.code = 500
        \/ /\ resp.body = "json"
           /\ ~resp.data.has_rdfs
           /\ resp.data.member \in {<< >>} \cup {<<r>> : r \in CallerRecords}}

CallerWrites == {0, 204, 400}

CallerHrefs == UNION {GetRecordHref(answer) : answer \in HrefResponses}

\* the local variables of a call not yet made
NoFrame ==
    [assetnum |-> "none", update_data |-> << >>, phase |-> "none", asset_href |-> "none",
     success |-> FALSE, result |-> Blank]

\* the local variables of update_asset on entry
EntryFrame(key, upd) ==
    [NoFrame EXCEPT !.assetnum = key, !.update_data = upd, !.phase = "pre"]

Stepped(p, f) == [pc |-> p, f |-> f]

\* get_asset returned ret to the update_asset whose locals are f
FrameReturned(f, ret) ==
    IF f.phase = "pre"
    THEN IF UpdateProceeds(ret) THEN Stepped("href", f)
         ELSE Stepped("done", [f EXCEPT !.result = ResNone])
    ELSE Stepped("done", [f EXCEPT !.result = UpdateAssetVerified(f.update_data, ret)])

\* the fields the read asks for: the default ones before the write, the
\* submitted ones after it
FrameFields(f) == IF f.phase = "verify" THEN FieldsToRequest(f.update_data) ELSE << >>

\* one step of update_asset standing at p with locals f, the backend having
\* answered a: where it stands next and its locals then
UpdateStep(p, f, a) ==
    CASE p = "rd_oslc" ->
            IF GetAssetOslcReturns(GetAssetOslcOutcome(a))
            THEN FrameReturned(f, GetAssetOslcValue(a, FrameFields(f)))
            ELSE Stepped("rd_rest", f)
      [] p = "rd_rest" ->
            IF GetAssetRestOutcome(a) = "ok"
            THEN FrameReturned(f, GetAssetRestValue(a))
            ELSE FrameReturned(f, GetAssetFallthrough)
      [] p = "href" ->
            IF a = "raise" THEN Stepped("done", [f EXCEPT !.result = ResNone])
            ELSE Stepped("w_oslc", [f EXCEPT !.asset_href = a])
      [] p = "w_oslc" ->
            LET ok == UpdateWriteOutcome(a) = "ok"
            IN  Stepped(AfterOslcPatch(ok), [f EXCEPT !.success = ok])
      [] p = "w_rest" ->
            LET ok == UpdateWriteOutcome(a) = "ok"
            IN  Stepped(AfterRestChange(ok),
                        [f EXCEPT !.success = ok,
                                  !.result = IF ok THEN f.result ELSE ResNone])
      [] p = "settle" -> Stepped("rd_oslc", [f EXCEPT !.phase = "verify"])
      [] OTHER -> Stepped(p, f)

\* a variant in which every call keeps its local variables in one place
SharedFrame(c) == 1

\* where call c keeps its local variables: each invocation has its own
Frame(c) == c

\* the local variables call c works with
Locals(c) == calls[Frame(c)]

ThreadsInit ==
    /\ CallIdle
    /\ at = [c \in Callers |-> "idle"]
    /\ calls = [c \in Callers |-> NoFrame]
    /\ alone = [c \in Callers |-> Stepped("idle", NoFrame)]
    /\ assets = << >>
    /\ RequestIdle
    /\ strategy = "none"
    /\ assetnum = << >>
    /\ siteid = << >>
    /\ search_criteria = << >>
    /\ where_clause = << >>
    /\ create_fields = << >>
    /\ payload = << >>
    /\ response = [code |-> 0, body |-> "none", data |-> NoData]
    /\ members = NoMembers
    /\ host = << >>
    /\ api_key = << >>
    /\ credentials = "none"
    /\ client = "none"
    /\ config = NoConfig

others ==
    <<call_vars, strategy, filter_vars, create_vars, read_vars, config_vars, request,
      assets>>

\* call c moves from p with answer a; alone[c] makes the same move on locals
\* no other call can reach
ThreadStep(c, a) ==
    LET new == UpdateStep(at[c], Locals(c), a)
        own == UpdateStep(alone[c].pc, alone[c].f, a)
    IN  /\ at' = [at EXCEPT ![c] = new.pc]
        /\ calls' = [calls EXCEPT ![Frame(c)] = new.f]
        /\ alone' = [alone EXCEPT ![c] = own]
        /\ UNCHANGED others

\* a caller invokes update_asset(CallerKey(c), upd)
ThreadCall(c) ==
    /\ at[c] = "idle"
    /\ \E upd \in CallerFieldSets :
          /\ at' = [at EXCEPT ![c] = "rd_oslc"]
          /\ calls' = [calls EXCEPT ![Frame(c)] = EntryFrame(CallerKey(c), upd)]
          /\ alone' = [alone EXCEPT ![c] = Stepped("rd_oslc", EntryFrame(CallerKey(c), upd))]
    /\ UNCHANGED others

ThreadRead(c) ==
    /\ at[c] \in {"rd_oslc", "rd_rest"}
    /\ \E resp \in CallerReads : ThreadStep(c, resp)

ThreadHref(c) ==
    /\ at[c] = "href"
    /\ \E h \in CallerHrefs : ThreadStep(c, h)

ThreadWrite(c) ==
    /\ at[c] \in {"w_oslc", "w_rest"}
    /\ \E code \in CallerWrites : ThreadStep(c, code)

\* time.sleep(2)
ThreadSettle(c) ==
    /\ at[c] = "settle"
    /\ ThreadStep(c, "slept")

ThreadsNext ==
    \E c \in Callers :
        \/ ThreadCall(c)
        \/ ThreadRead(c)
        \/ ThreadHref(c)
        \/ ThreadWrite(c)
        \/ ThreadSettle(c)

ThreadsSpec == ThreadsInit /\ [][ThreadsNext]_vars

\* C20: two update calls on two different keys, their steps interleaved in any
\* order, never see each other's intermediate state: at every step a call stands
\* where it would stand alone, works on its own key and FieldSet, and holds the
\* values and the result it would hold had it run alone on the same answers.
C20_ConcurrentUpdatesIndependent ==
    \A c \in Callers :
        at[c] # "idle" =>
            /\ at[c] = alone[c].pc
            /\ Locals(c) = alone[c].f
            /\ Locals(c).assetnum = CallerKey(c)

\* both calls in flight with different submissions, one past its accepted write,
\* the other refused by its first write strategy
C20_Witness ==
    /\ at[1] = "settle" /\ Locals(1).success
    /\ at[2] = "w_rest" /\ ~Locals(2).success
    /\ Locals(1).update_data # Locals(2).update_data


\* every key of record rec is a logical field name: no prefix, lower case
LogicalKeysOnly(rec) == \A j \in DOMAIN rec : Logical(rec[j].k) = rec[j].k

\* C21: every record get_asset returns to its caller has only logical
\* (unprefixed) field names as keys, whichever read strategy produced it.
C21_FetchReturnsLogicalKeysOnly ==
    (Done /\ op = "get_asset" /\ result.kind = "list") =>
        \A i \in DOMAIN result.value : LogicalKeysOnly(result.value[i])


(***************************************************************************)
(* The write requests of update_asset, update_location and create_asset    *)
(*   assetnum holds the natural key (the location for update_location),    *)
(*   asset_href "none" or "href"; payload is the JSON body and request the *)
(*   rest of what requests.post is given.                                  *)
(***************************************************************************)
\* the keys a caller may submit, logical or already prefixed
WriteKeys == {<<"status">>, <<"description">>, <<"spi:", "status">>}
WriteFieldSets == DictsOver(WriteKeys, {<<"ACTIVE">>}, MaxFields) \ {<< >>}

\* self.json_headers
JsonHeaders ==
    <<[k |-> "apikey", v |-> <<"KEY">>],
      [k |-> "Content-Type", v |-> <<"application/json">>],
      [k |-> "Accept", v |-> <<"application/json">>]>>

\* key if key.startswith("spi:") else f"spi:{key}"
OslcName(key) == IF key # << >> /\ Head(key) = "spi:" THEN key ELSE Spi(key)

\* oslc_payload: the identifiers when there is no record URI, then the fields
OslcPayload(idents, fields) ==
    PutAll(idents, [i \in DOMAIN fields |-> [k |-> OslcName(fields[i].k), v |-> fields[i].v]])

\* the identifiers update_asset and update_location put first
Identifiers(name, key, site) ==
    <<[k |-> Spi(name), v |-> key]>>
        \o (IF site # << >> THEN <<[k |-> <<"spi:", "siteid">>, v |-> site]>> ELSE << >>)

\* k.startswith("spi:_")
StartsWithSpiUnderscore(k) == Len(k) >= 2 /\ k[1] = "spi:" /\ k[2] = "_rowstamp"

\* ",".join(k.replace("spi:", "") for k in oslc_payload if not
\* k.startswith("spi:_") and k != "spi:<name>" and k != "spi:siteid")
Properties(pl, name) ==
    LET named == SelectSeq(pl, LAMBDA e : /\ ~StartsWithSpiUnderscore(e.k)
                                          /\ e.k # Spi(name)
                                          /\ e.k # <<"spi:", "siteid">>)
    IN  Join([i \in DOMAIN named |-> Replace(named[i].k, "spi:", << >>)], <<Comma>>)

\* patch_headers
PatchHeaders(properties) ==
    PutAll(JsonHeaders, <<[k |-> "x-method-override", v |-> <<"PATCH">>],
                          [k |-> "Properties", v |-> properties]>>)

\* f'spi:<name>="{key}"' + (f' and spi:siteid="{siteid}"' if siteid else '')
WriteOslcWhere(name, key, site) ==
    Spi(name) \o <<"=">> \o Quoted(key)
        \o (IF site # << >>
            THEN <<Space, "and", Space, "spi:", "siteid", "=">> \o Quoted(site)
            ELSE << >>)

\* f'<name>="{key}"' + (f' and siteid="{siteid}"' if siteid else '')
WriteRestWhere(name, key, site) ==
    name \o <<"=">> \o Quoted(key)
        \o (IF site # << >> THEN <<Space, "and", Space, "siteid", "=">> \o Quoted(site)
            ELSE << >>)

\* requests.post(oslc_url, headers=patch_headers, params=params, json=...)
OslcPatchRequest(href, pl, name, key, site) ==
    [method |-> "POST",
     url |-> IF href # "none" THEN "href" ELSE "oslc_collection",
     headers |-> PatchHeaders(Properties(pl, name)),
     params |-> IF href # "none" THEN << >>
                ELSE <<[k |-> "oslc.where", v |-> WriteOslcWhere(name, key, site)]>>]

\* {"<NAME>": [record]}
Wrapped(name, record) == <<[k |-> name, v |-> <<record>>]>>

\* the record of an action-style request: the key, the site when given, then
\* every submitted field under key.upper()
ChangeRecord(name, key, site, fields) ==
    PutAll(<<[k |-> name, v |-> key]>>
               \o (IF site # << >> THEN <<[k |-> <<"SITEID">>, v |-> site]>> ELSE << >>),
           [i \in DOMAIN fields |-> [k |-> KeyUpper(fields[i].k), v |-> fields[i].v]])

\* requests.post(f"{self.api_url}/...", headers=self.json_headers, params=params, ...)
ActionRequest(action, where) ==
    [method |-> "POST",
     url |-> "api_collection",
     headers |-> JsonHeaders,
     params |-> <<[k |-> "_action", v |-> <<action>>]>>
                    \o (IF where # << >> THEN <<[k |-> "oslc.where", v |-> where]>>
                        ELSE <<[k |-> "lean", v |-> <<"1">>]>>)]

WriteInit ==
    /\ op = "idle"
    /\ pc = "idle"
    /\ phase = "none"
    /\ update_data \in WriteFieldSets
    /\ fields_to_select = << >>
    /\ verify = TRUE
    /\ asset_href \in {"none", "href"}
    /\ success = FALSE
    /\ created_assetnum = None
    /\ chain = << >>
    /\ chain_kind = "none"
    /\ writes_sent = 0
    /\ verify_reads = 0
    /\ resolved = "yes"
    /\ wire = << >>
    /\ result = Blank
    /\ strategy = "none"
    /\ assetnum = <<"A1">>
    /\ siteid \in Sites
    /\ search_criteria = << >>
    /\ where_clause = << >>
    /\ create_fields = << >>
    /\ payload = << >>
    /\ response = [code |-> 0, body |-> "none", data |-> NoData]
    /\ members = NoMembers
    /\ host = << >>
    /\ api_key = << >>
    /\ credentials = "none"
    /\ client = "none"
    /\ config = NoConfig
    /\ ThreadsIdle
    /\ RequestIdle

\* one write request is built and sent; update_asset and update_location get
\* here only after the read before the write found the record
BuildWrite(strat, pl, req) ==
    /\ strategy' = strat
    /\ payload' = pl
    /\ request' = req
    /\ UNCHANGED <<call_vars, thread_vars, filter_vars, create_fields, read_vars,
                   config_vars>>

\* MaximoAPIClient.update_asset, OSLC PATCH
BuildUpdateAssetOslc ==
    /\ resolved = "yes"
    /\ LET idents == IF asset_href = "none"
                     THEN Identifiers(<<"assetnum">>, assetnum, siteid)
                     ELSE << >>
           pl == OslcPayload(idents, update_data)
       IN  BuildWrite("oslc_patch", pl,
                      OslcPatchRequest(asset_href, pl, <<"assetnum">>, assetnum, siteid))

\* MaximoAPIClient.update_location, OSLC PATCH
BuildUpdateLocationOslc ==
    /\ resolved = "yes"
    /\ LET idents == IF asset_href = "none"
                     THEN Identifiers(<<"location">>, assetnum, siteid)
                     ELSE << >>
           pl == OslcPayload(idents, update_data)
       IN  BuildWrite("loc_oslc_patch", pl,
                      OslcPatchRequest(asset_href, pl, <<"location">>, assetnum, siteid))

\* EnhancedMaximoClient.update_asset, OSLC PATCH: siteid is required, the
\* identifiers are always sent, and a _rowstamp the record held is sent too
BuildEnhUpdateOslc ==
    /\ siteid # << >>
    /\ \E rowstamp \in BOOLEAN :
          LET idents == Identifiers(<<"assetnum">>, assetnum, siteid)
                          \o (IF rowstamp
                              THEN <<[k |-> <<"spi:", "_rowstamp">>, v |-> <<"7">>]>>
                              ELSE << >>)
              pl == OslcPayload(idents, update_data)
          IN  BuildWrite("enh_oslc_patch", pl,
                         OslcPatchRequest(asset_href, pl, <<"assetnum">>, assetnum, siteid))

\* MaximoAPIClient.update_asset, _action=Change
BuildUpdateAssetChange ==
    /\ resolved = "yes"
    /\ BuildWrite("rest_change",
                  Wrapped(<<"ASSET">>,
                          ChangeRecord(<<"ASSETNUM">>, assetnum, siteid, update_data)),
                  ActionRequest("Change", WriteRestWhere(<<"assetnum">>, assetnum, siteid)))

\* MaximoAPIClient.update_location, _action=Change
BuildUpdateLocationChange ==
    /\ resolved = "yes"
    /\ BuildWrite("loc_rest_change",
                  Wrapped(<<"LOCATIONS">>,
                          ChangeRecord(<<"LOCATION">>, assetnum, siteid, update_data)),
                  ActionRequest("Change", WriteRestWhere(<<"location">>, assetnum, siteid)))

\* EnhancedMaximoClient.update_asset, _action=Change
BuildEnhUpdateChange ==
    /\ siteid # << >>
    /\ BuildWrite("enh_rest_change",
                  Wrapped(<<"ASSET">>,
                          ChangeRecord(<<"ASSETNUM">>, assetnum, siteid, update_data)),
                  ActionRequest("Change", WriteRestWhere(<<"assetnum">>, assetnum, siteid)))

\* MaximoAPIClient.create_asset, _action=Add, with update_data as asset_data
BuildCreateAdd ==
    /\ siteid # << >>
    /\ BuildWrite("rest_add", Wrapped(<<"ASSET">>, CreateRestPayload(siteid, update_data)),
                  ActionRequest("Add", << >>))

WriteNext ==
    \/ BuildUpdateAssetOslc
    \/ BuildUpdateLocationOslc
    \/ BuildEnhUpdateOslc
    \/ BuildUpdateAssetChange
    \/ BuildUpdateLocationChange
    \/ BuildEnhUpdateChange
    \/ BuildCreateAdd

WriteSpec == WriteInit /\ [][WriteNext]_vars

\* the request built last is an OSLC update
OslcUpdateBuilt == strategy \in {"oslc_patch", "loc_oslc_patch", "enh_oslc_patch"}

\* the Properties header names every submitted field
NamesSubmittedFields(headers) ==
    /\ Has(headers, "Properties")
    /\ LET parts == Split(Get(headers, "Properties"), Comma)
       IN  \A i \in DOMAIN update_data :
              \E j \in DOMAIN parts : parts[j] = Logical(update_data[i].k)

\* the request says that the payload is to be merged into the record
MergeIndicated(headers) ==
    /\ Has(headers, "patchtype")
    /\ Get(headers, "patchtype") = <<"MERGE">>

OverridesToPatch(headers) ==
    /\ Has(headers, "x-method-override")
    /\ Get(headers, "x-method-override") = <<"PATCH">>

\* C22: every OSLC update request is a POST carrying a header that overrides
\* the verb to PATCH, a Properties header naming the fields of the payload, and
\* a merge-mode indicator.
C22_OslcUpdateCarriesThreeMarkers ==
    OslcUpdateBuilt =>
        /\ request.method = "POST"
        /\ OverridesToPatch(request.headers)
        /\ NamesSubmittedFields(request.headers)
        /\ MergeIndicated(request.headers)


\* the request built last is an action-style one
ActionBuilt ==
    strategy \in {"rest_change", "loc_rest_change", "enh_rest_change", "rest_add"}

UpperTokens ==
    {"SPI:", "STATUS", "DESCRIPTION", "ASSETNUM", "SITEID", "LOCATION", "ASSET", "LOCATIONS"}

\* a name written in upper case
UpperCased(k) == \A i \in DOMAIN k : k[i] \in UpperTokens

\* the upper-cased resource type name and natural key of each strategy
ResourceName == IF strategy = "loc_rest_change" THEN <<"LOCATIONS">> ELSE <<"ASSET">>
NaturalKey == IF strategy = "loc_rest_change" THEN <<"LOCATION">> ELSE <<"ASSETNUM">>

\* the submitted fields the strategy is to send: create leaves out assetnum
\* and siteid
ToSend ==
    {i \in DOMAIN update_data :
        strategy = "rest_add" => KeyLower(update_data[i].k) \notin {<<"assetnum">>, <<"siteid">>}}

\* C23: the payload of every action-style strategy is an object with one key,
\* the upper-cased resource type name, holding an array with one record whose
\* field names (natural key, site, every submitted field) are all upper-cased.
C23_ActionPayloadUpperCased ==
    ActionBuilt =>
        /\ Len(payload) = 1
        /\ payload[1].k = ResourceName
        /\ Len(payload[1].v) = 1
        /\ LET rec == payload[1].v[1]
           IN  /\ \A j \in DOMAIN rec : UpperCased(rec[j].k)
               /\ strategy # "rest_add" => \E j \in DOMAIN rec : rec[j].k = NaturalKey
               /\ siteid # << >> => \E j \in DOMAIN rec : rec[j].k = <<"SITEID">>
               /\ \A i \in ToSend :
                     \E j \in DOMAIN rec :
                         /\ KeyLower(rec[j].k) = KeyLower(update_data[i].k)
                         /\ rec[j].v = update_data[i].v

\* a change request for a record in a site, with a prefixed and an unprefixed
\* field submitted
C23_Witness ==
    /\ strategy = "rest_change"
    /\ siteid # << >>
    /\ Has(update_data, <<"spi:", "status">>)
    /\ Has(update_data, <<"description">>)
    /\ Len(payload[1].v[1]) = 4


(***************************************************************************)
(* Termination.  Every request is sent with a timeout, so each request     *)
(* returns or raises and the call takes its next step: weak fairness of    *)
(* the steps.  Termination does not depend on what the records hold, so    *)
(* the reads here get one answer of every kind.                            *)
(***************************************************************************)
\* one answer of every kind a read can get, with records of one field
LiveRecords == {<<[k |-> <<"spi:", "status">>, v |-> s]>> : s \in StoredValues}

LiveReads ==
    {resp \in ReadResponses :
        \/ resp.body # "json"
        \/ /\ resp.data.member \in {<< >>} \cup {<<r>> : r \in LiveRecords}
           /\ resp.data.rdfs \in {<< >>} \cup {<<r>> : r \in LiveRecords}}

\* a caller invokes get_asset, update_asset or create_asset
LiveCall ==
    /\ pc = "idle"
    /\ \E o \in {"get_asset", "update_asset", "create_asset"}, upd \in CallerFieldSets :
          /\ op' = o
          /\ update_data' = IF o \in UpdateOps THEN upd ELSE << >>
          /\ pc' = FirstPc(o)
          /\ phase' = FirstPhase(o)
    /\ UNCHANGED <<aside, fields_to_select, verify, asset_href, success, created_assetnum,
                   chain, chain_kind, writes_sent, verify_reads, resolved, wire, result>>

LiveGetAssetOslc ==
    /\ pc = "rd_oslc"
    /\ \E resp \in LiveReads : GetAssetOslcAnswered(resp)

LiveGetAssetRest ==
    /\ pc = "rd_rest"
    /\ \E resp \in LiveReads : GetAssetRestAnswered(resp)

LiveNext ==
    \/ LiveCall
    \/ LiveGetAssetOslc
    \/ LiveGetAssetRest
    \/ LookupHref
    \/ UpdateAssetOslc
    \/ UpdateAssetRest
    \/ UpdateAssetSettle
    \/ CreateOslc
    \/ CreateRest
    \/ CreateDirect
    \/ CreateSearch
    \/ CreateDetail

LiveSpec == Init /\ [][LiveNext]_vars /\ WF_vars(LiveNext)

\* the place of a strategy in its chain
Rank(strat) ==
    CASE strat \in {"oslc_read", "oslc_patch", "oslc_create"} -> 1
      [] strat \in {"rest_read", "rest_change", "rest_add"} -> 2
      [] strat = "direct_post" -> 3

\* within a chain every attempt is of a later strategy than the one before
NeverBackToEarlier ==
    \A i, j \in DOMAIN chain : i < j => Rank(chain[i].strat) < Rank(chain[j].strat)

\* a fetch, update or create call is running
Running == op \in {"get_asset", "update_asset", "create_asset"} /\ pc # "done"

\* C24: every fetch, update and create call goes from strategy to strategy
\* without ever returning to an earlier one, and, every request returning or
\* timing out, reaches a terminal outcome after finitely many attempts.
C24_CallsTerminate ==
    /\ [](op \in {"get_asset", "update_asset", "create_asset"} => NeverBackToEarlier)
    /\ (Running ~> Done)

\* an update that tried both write strategies and both read strategies of its
\* verification before it ended
C24_Witness ==
    /\ Done /\ op = "update_asset" /\ phase = "verify"
    /\ writes_sent = 2 /\ Len(chain) = 2


\* C25: in a read chain the next strategy is invoked only after the one before
\* ended in a refused request or a network failure; a strategy answered with
\* 200 and no record ends the chain.
C25_EmptyAnswerEndsReadChain ==
    chain_kind = "read" =>
        \A i \in DOMAIN chain :
            i < Len(chain) => chain[i].outcome \notin {"ok", "empty"}


(***************************************************************************)
(* The verification read of an update.  Each read request of get_asset is  *)
(* recorded in request as it is sent; assetnum and siteid are the call's   *)
(* arguments.                                                              *)
(***************************************************************************)
\* int(time.time()) at the moment a request is built
Clock == {"t1", "t2"}

\* self.headers
Headers ==
    <<[k |-> "apikey", v |-> <<"KEY">>],
      [k |-> "Accept", v |-> <<"application/json">>]>>

\* MaximoAPIClient.get_asset, OSLC request
GetAssetOslcRequest(asset_num, site, now) ==
    [method |-> "GET",
     url |-> "oslc_collection",
     headers |-> Headers,
     params |-> <<[k |-> "oslc.where", v |-> GetAssetOslcWhere(asset_num, site)],
                  [k |-> "oslc.select", v |-> <<"*">>],
                  [k |-> "_ts", v |-> <<now>>]>>]

\* select_fields of the REST request: the fields asked for or the default,
\* with assetnum put first when it is missing
RestSelectFields(fields) ==
    LET sel == SelectedOrDefault(fields, DefaultAssetFields)
    IN  IF \E i \in DOMAIN sel : KeyLower(Strip(sel[i])) = <<"assetnum">>
        THEN Join(sel, <<Comma>>)
        ELSE <<"assetnum", Comma>> \o Join(sel, <<Comma>>)

\* MaximoAPIClient.get_asset, REST request
GetAssetRestRequest(asset_num, site, fields, now) ==
    [method |-> "GET",
     url |-> "api_collection",
     headers |-> Headers,
     params |-> <<[k |-> "oslc.where", v |-> GetAssetRestWhere(asset_num, site)],
                  [k |-> "oslc.select", v |-> RestSelectFields(fields)],
                  [k |-> "lean", v |-> <<"1">>],
                  [k |-> "_format", v |-> <<"json">>],
                  [k |-> "_ts", v |-> <<now>>]>>]

\* a variant that never adds the parameter
NoCacheParam(refresh, now) == << >>

\* cache_param = {"_lid": int(time.time())} if refresh else {}
CacheParam(refresh, now) ==
    IF refresh THEN <<[k |-> "_lid", v |-> <<now>>]>> ELSE << >>

\* EnhancedMaximoClient.get_asset, OSLC request
EnhGetAssetOslcRequest(asset_num, site, refresh, now) ==
    [method |-> "GET",
     url |-> "oslc_collection",
     headers |-> JsonHeaders,
     params |-> <<[k |-> "oslc.where",
                   v |-> <<"spi:", "assetnum", "=">> \o Quoted(asset_num)
                            \o <<Space, "and", Space, "spi:", "siteid", "=">>
                            \o Quoted(site)],
                  [k |-> "oslc.select", v |-> <<"*">>]>>
                    \o CacheParam(refresh, now)]

\* EnhancedMaximoClient.get_asset, REST request
EnhGetAssetRestRequest(asset_num, site, refresh, now) ==
    [method |-> "GET",
     url |-> "api_collection",
     headers |-> JsonHeaders,
     params |-> <<[k |-> "oslc.where",
                   v |-> <<"assetnum", "=">> \o Quoted(asset_num)
                            \o <<Space, "and", Space, "siteid", "=">> \o Quoted(site)],
                  [k |-> "oslc.select", v |-> <<"*">>]>>
                    \o CacheParam(refresh, now)]

FreshInit ==
    /\ CallIdle
    /\ strategy = "none"
    /\ assetnum = <<"A1">>
    /\ siteid = <<"BEDFORD">>
    /\ search_criteria = << >>
    /\ where_clause = << >>
    /\ create_fields = << >>
    /\ payload = << >>
    /\ response = [code |-> 0, body |-> "none", data |-> NoData]
    /\ members = NoMembers
    /\ host = << >>
    /\ api_key = << >>
    /\ credentials = "none"
    /\ client = "none"
    /\ config = NoConfig
    /\ ThreadsIdle
    /\ RequestIdle

\* a caller invokes update_asset of one of the two clients
FreshCall ==
    /\ pc = "idle"
    /\ \E o \in {"update_asset", "enh_update_asset"}, upd \in CallerFieldSets,
          vf \in BOOLEAN :
          /\ op' = o
          /\ update_data' = upd
          /\ verify' = IF o = "enh_update_asset" THEN vf ELSE TRUE
          /\ pc' = FirstPc(o)
          /\ phase' = FirstPhase(o)
    /\ UNCHANGED <<aside, fields_to_select, asset_href, success, created_assetnum,
                   chain, chain_kind, writes_sent, verify_reads, resolved, wire, result>>

\* requests.get is given req
ReadSent(req) ==
    /\ request' = req
    /\ UNCHANGED <<strategy, payload, thread_vars, filter_vars, create_fields, read_vars,
                   config_vars>>

FreshGetAssetOslc ==
    /\ pc = "rd_oslc"
    /\ \E resp \in LiveReads, now \in Clock :
          /\ ReadSent(GetAssetOslcRequest(assetnum, siteid, now))
          /\ GetAssetOslcTaken(resp)

FreshGetAssetRest ==
    /\ pc = "rd_rest"
    /\ \E resp \in LiveReads, now \in Clock :
          /\ ReadSent(GetAssetRestRequest(assetnum, siteid, PhaseFields, now))
          /\ GetAssetRestTaken(resp)

FreshEnhGetAssetOslc ==
    /\ pc = "enh_oslc"
    /\ \E resp \in LiveReads, now \in Clock :
          /\ ReadSent(EnhGetAssetOslcRequest(assetnum, siteid, phase = "verify", now))
          /\ EnhGetAssetOslcTaken(resp)

FreshEnhGetAssetRest ==
    /\ pc = "enh_rest"
    /\ \E resp \in LiveReads, now \in Clock :
          /\ ReadSent(EnhGetAssetRestRequest(assetnum, siteid, phase = "verify", now))
          /\ EnhGetAssetRestTaken(resp)

FreshNext ==
    \/ FreshCall
    \/ FreshGetAssetOslc
    \/ FreshGetAssetRest
    \/ LookupHref
    \/ UpdateAssetOslc
    \/ UpdateAssetRest
    \/ UpdateAssetSettle
    \/ FreshEnhGetAssetOslc
    \/ FreshEnhGetAssetRest
    \/ EnhPrepare
    \/ EnhUpdateOslc
    \/ EnhUpdateRest
    \/ EnhSettle

FreshSpec == FreshInit /\ [][FreshNext]_vars

\* the request carries a parameter whose value is the time it was built
CacheBusting(req) ==
    \E i \in DOMAIN req.params :
        /\ req.params[i].k \in {"_ts", "_lid"}
        /\ req.params[i].v \in {<<now>> : now \in Clock}

\* this step sends a read request of the verification
VerifyReadIssued == verify_reads' = verify_reads + 1

\* this step starts the verification
VerificationStarts == phase # "verify" /\ phase' = "verify"

\* C26: in update, the verification read is issued only after a write strategy
\* was accepted and the settle delay has passed, and it is a fresh run of the
\* read chain, its requests carrying a cache-busting parameter; the record read
\* before the write is never what the verification compares.
C26_VerifyReadFreshAfterSettle ==
    /\ [][VerificationStarts =>
             /\ pc \in {"settle", "enh_settle"}
             /\ success
             /\ chain_kind = "update"
             /\ chain[Len(chain)].outcome = "ok"
             /\ chain' = << >>
             /\ verify_reads = 0]_vars
    /\ [][VerifyReadIssued =>
             /\ phase = "verify"
             /\ success
             /\ Len(chain') = verify_reads'
             /\ request'.method = "GET"
             /\ CacheBusting(request')]_vars
    /\ []((Done /\ phase = "verify") => (verify_reads >= 1 /\ Len(chain) = verify_reads))

\* the enhanced client's verification went through both read strategies
C26_Witness ==
    /\ Done /\ op = "enh_update_asset" /\ phase = "verify"
    /\ verify_reads = 2
    /\ CacheBusting(request)
    /\ Get(request.params, "_lid") \in {<<now>> : now \in Clock}


\* C27: once the verification read of an update call has been issued, no
\* further write request is sent in that call, whatever the comparison found.
C27_NoWriteAfterVerifyRead ==
    [][(phase = "verify" \/ verify_reads > 0) => writes_sent' = writes_sent]_vars

\* an update whose verification read found a different value ended, one write sent
C27_Witness ==
    /\ Done /\ op = "update_asset" /\ verify_reads > 0
    /\ result.status = "partial_success"
    /\ writes_sent = 1


\* C28: a submitted field that the re-read record holds under none of its
\* four key representations is never classified as verified, whatever value
\* was submitted for it, null included.
C28_AbsentFieldNeverVerified ==
    (Done /\ op = "update_asset" /\ phase = "verify" /\ result.has_verification) =>
        \A i \in DOMAIN result.verification :
            result.verification[i].verified =>
                Present(wire[1], result.verification[i].field)


(***************************************************************************)
(* MaximoAPIClient.create_asset with the answer to each create request     *)
(* kept in response and the records of the fallback search in members.     *)
(***************************************************************************)
\* largest number of records the fallback search is answered with
MaxFound == 2

\* asset_data of the calls studied
FallbackFieldSets ==
    {<< >>,
     <<[k |-> <<"description">>, v |-> <<"PUMP">>]>>,
     <<[k |-> <<"description">>, v |-> <<"pump">>]>>,
     <<[k |-> <<"DESCRIPTION">>, v |-> <<"PUMP">>]>>,
     <<[k |-> <<"assetnum">>, v |-> <<"A1">>]>>,
     <<[k |-> <<"description">>, v |-> <<"PUMP">>], [k |-> <<"assetnum">>, v |-> <<"A1">>]>>}

\* the records of the site the search may be answered with, newest first
FoundRecords ==
    {<<[k |-> <<"assetnum">>, v |-> n]>> : n \in {<<"1001">>, <<"1002">>}}
    \cup {<<[k |-> <<"assetnum">>, v |-> n], [k |-> <<"description">>, v |-> d]>> :
             n \in {<<"1001">>, <<"1002">>}, d \in {<<"PUMP">>, <<"FAN">>}}

FoundLists == UNION {[1..n -> FoundRecords] : n \in 0..MaxFound}

\* answers to the search request
FallbackAnswers ==
    {[code |-> c, body |-> "none", member |-> << >>] : c \in {0, 500}}
    \cup {[code |-> 200, body |-> "unparsable", member |-> << >>]}
    \cup {[code |-> 200, body |-> "json", member |-> l] : l \in FoundLists}

\* asset.get(key), None without the key
DictGet(asset, key) == IF Has(asset, key) THEN Get(asset, key) ELSE None

\* the inner loop of the search: match is False as soon as one submitted field
\* has a truthy value in the record that differs, case ignored, from the
\* submitted one
Match(asset, fields) ==
    \A i \in DOMAIN fields :
        LET asset_value == DictGet(asset, KeyLower(fields[i].k))
        IN  ~(/\ asset_value # None
              /\ asset_value # << >>
              /\ KeyLower(asset_value) # KeyLower(fields[i].v))

\* created_assetnum after the outer loop over data["member"]
RECURSIVE FirstMatching(_, _)
FirstMatching(found, fields) ==
    IF found = << >> THEN None
    ELSE IF Match(Head(found), fields) /\ DictGet(Head(found), <<"assetnum">>) # None
    THEN DictGet(Head(found), <<"assetnum">>)
    ELSE FirstMatching(Tail(found), fields)

\* created_assetnum after the fallback search
FallbackAssetnum(answer, fields) ==
    IF answer.code = 200 /\ answer.body = "json" /\ answer.member # << >>
    THEN IF FirstMatching(answer.member, fields) # None
         THEN FirstMatching(answer.member, fields)
         ELSE DictGet(answer.member[1], <<"assetnum">>)
    ELSE None

\* what the search made of its answer
FallbackOutcome(answer) ==
    IF answer.code = 0 \/ (answer.code = 200 /\ answer.body # "json") THEN "exception"
    ELSE IF answer.code # 200 THEN "http_error"
    ELSE IF answer.member = << >> THEN "empty"
    ELSE "ok"

FallbackInit ==
    /\ CallIdle
    /\ siteid = <<"BEDFORD">>
    /\ create_fields \in FallbackFieldSets
    /\ strategy = "none"
    /\ assetnum = << >>
    /\ search_criteria = << >>
    /\ where_clause = << >>
    /\ payload = << >>
    /\ response = [code |-> 0, body |-> "none", data |-> NoData]
    /\ members = NoMembers
    /\ host = << >>
    /\ api_key = << >>
    /\ credentials = "none"
    /\ client = "none"
    /\ config = NoConfig
    /\ ThreadsIdle
    /\ RequestIdle

\* one create request is sent and answered with resp
CreateRequestAnswered(strat, resp) ==
    /\ CreateAnswered(strat, resp)
    /\ response' = [code |-> resp.code, body |-> resp.body, data |-> NoData]
    /\ writes_sent' = writes_sent + 1
    /\ UNCHANGED <<inputs, phase, asset_href, verify_reads, resolved, wire>>
    /\ UNCHANGED <<strategy, filter_vars, create_vars, members, config_vars, thread_vars,
                   request>>

FallbackCreateOslc ==
    /\ pc = "cr_oslc"
    /\ chain_kind' = "create"
    /\ \E resp \in CreateResponses : CreateRequestAnswered("oslc_create", resp)

FallbackCreateRest ==
    /\ pc = "cr_rest"
    /\ UNCHANGED chain_kind
    /\ \E resp \in CreateResponses : CreateRequestAnswered("rest_add", resp)

FallbackCreateDirect ==
    /\ pc = "cr_direct"
    /\ UNCHANGED chain_kind
    /\ \E resp \in CreateResponses : CreateRequestAnswered("direct_post", resp)

\* time.sleep(3) and the search for the record just created
FallbackSearch ==
    /\ pc = "cr_search"
    /\ \E answer \in FallbackAnswers :
          LET found == FallbackAssetnum(answer, create_fields)
          IN  /\ created_assetnum' = found
              /\ members' = [outcome |-> FallbackOutcome(answer), records |-> answer.member]
              /\ pc' = IF found # None THEN "cr_detail" ELSE "done"
              /\ result' = IF found # None THEN result
                           ELSE CreateResult(create_fields, None)
    /\ UNCHANGED <<inputs, phase, asset_href, success, chain, chain_kind, writes_sent,
                   verify_reads, resolved, wire>>
    /\ UNCHANGED <<strategy, filter_vars, create_vars, response, config_vars, thread_vars,
                   request>>

FallbackNext ==
    \/ CreateCall
    \/ FallbackCreateOslc
    \/ FallbackCreateRest
    \/ FallbackCreateDirect
    \/ FallbackSearch
    \/ CreateDetail
    \/ LiveGetAssetOslc
    \/ LiveGetAssetRest

FallbackSpec == FallbackInit /\ [][FallbackNext]_vars

\* C29: once the backend has answered a create request with 200 or 201, no
\* later create strategy is invoked in that call, even if the body of the
\* answer is empty or cannot be parsed.
C29_NoCreateAfterAcceptedCreate ==
    [][(op = "create_asset" /\ response.code \in {200, 201})
          => writes_sent' = writes_sent]_vars


\* record rec contradicts none of the submitted fields: whatever it holds for
\* a submitted field is, case ignored, the submitted value
Agrees(rec, fields) ==
    \A i \in DOMAIN fields, j \in DOMAIN rec :
        KeyLower(rec[j].k) = KeyLower(fields[i].k)
            => KeyLower(rec[j].v) = KeyLower(fields[i].v)

\* the fallback search was answered with records
SearchAnswered == op = "create_asset" /\ members.outcome = "ok"

\* the most recent of the returned records that agrees with the submitted fields
MostRecentAgreeing ==
    members.records[CHOOSE i \in DOMAIN members.records :
                        /\ Agrees(members.records[i], create_fields)
                        /\ \A j \in 1..(i - 1) : ~Agrees(members.records[j], create_fields)]

\* C30: the identifier the fallback search of create yields is that of the most
\* recent returned record that contradicts no submitted field; when no returned
\* record agrees with the submitted fields the search yields no identifier and
\* the call ends in partial_success.
C30_FallbackReturnsAgreeingRecord ==
    SearchAnswered =>
        IF \E i \in DOMAIN members.records : Agrees(members.records[i], create_fields)
        THEN created_assetnum = Get(MostRecentAgreeing, <<"assetnum">>)
        ELSE /\ created_assetnum = None
             /\ Done
             /\ result.status = "partial_success"

\* C30, first half: when some returned record agrees with the submitted
\* fields, the identifier is that of the most recent such record.
C30_AgreeingRecordPreferred ==
    (SearchAnswered
        /\ \E i \in DOMAIN members.records : Agrees(members.records[i], create_fields))
        => created_assetnum = Get(MostRecentAgreeing, <<"assetnum">>)


(***************************************************************************)
(* Two create_asset calls running at once against one site with the same   *)
(* asset_data.  The backend keeps the records it created in assets, newest *)
(* first, numbers them itself and answers the search from what it holds.   *)
(***************************************************************************)
\* asset_data of both calls
RaceFields == <<[k |-> <<"description">>, v |-> <<"PUMP">>]>>

\* the numbers the backend gives to new records, in order
AssetNumbers == <<"1001", "1002", "1003", "1004", "1005", "1006">>

\* the record the backend adds when it accepts a create request
NewRecord(table, fields) ==
    <<[k |-> <<"assetnum">>, v |-> <<AssetNumbers[Len(table) + 1]>>]>> \o fields

\* the local variables of create_asset on entry
RaceEntry == [success |-> FALSE, created_assetnum |-> None, searched |-> FALSE,
              result |-> Blank]

\* the strategy create_asset is at
StrategyAt(p) ==
    CASE p = "cr_oslc" -> "oslc_create"
      [] p = "cr_rest" -> "rest_add"
      [] p = "cr_direct" -> "direct_post"

\* search_where: the site and, when one was submitted, the description;
\* oslc.orderBy "-assetid", oslc.pageSize "5"
SearchAnswer(table, fields) ==
    LET hits == SelectSeq(table, LAMBDA rec :
                    ~(Has(fields, <<"description">>) /\ Get(fields, <<"description">>) # << >>)
                    \/ DictGet(rec, <<"description">>) = Get(fields, <<"description">>))
    IN  [code |-> 200, body |-> "json",
         member |-> SubSeq(hits, 1, IF Len(hits) < 5 THEN Len(hits) ELSE 5)]

\* one create request of a call with locals f, answered with resp; number is
\* the asset number of the record the backend made for it
RaceCreated(p, f, resp, number) ==
    LET ok == CreateOutcome(resp) = "ok"
        found == IF ok /\ ParsedAssetnum(resp) # None THEN number ELSE None
        next == IF ok THEN AfterCreated(found) ELSE AfterCreateFailed(StrategyAt(p))
    IN  Stepped(next, [f EXCEPT !.success = ok,
                                !.created_assetnum = found,
                                !.result = IF ~ok /\ next = "done" THEN ResNone ELSE f.result])

\* the fallback search of a call with locals f, answered with answer
RaceSearched(f, answer) ==
    LET found == FallbackAssetnum(answer, RaceFields)
    IN  Stepped("cr_detail", [f EXCEPT !.created_assetnum = found, !.searched = TRUE])

\* "Build return data" to the end of create_asset; full is the record of the
\* detail read, << >> when get_asset returned nothing or raised
RaceReturned(f, full) ==
    Stepped("done",
            [f EXCEPT !.result =
                IF f.created_assetnum # None /\ full # << >>
                THEN CreateFullAsset(ListOf(<<full>>), f.created_assetnum)
                ELSE CreateResult(RaceFields, f.created_assetnum)])

RaceInit ==
    /\ CallIdle
    /\ at = [c \in Callers |-> "idle"]
    /\ calls = [c \in Callers |-> RaceEntry]
    /\ alone = << >>
    /\ assets = << >>
    /\ RequestIdle
    /\ strategy = "none"
    /\ assetnum = << >>
    /\ siteid = <<"BEDFORD">>
    /\ search_criteria = << >>
    /\ where_clause = << >>
    /\ create_fields = RaceFields
    /\ payload = << >>
    /\ response = [code |-> 0, body |-> "none", data |-> NoData]
    /\ members = NoMembers
    /\ host = << >>
    /\ api_key = << >>
    /\ credentials = "none"
    /\ client = "none"
    /\ config = NoConfig

race_others ==
    <<call_vars, strategy, filter_vars, create_vars, read_vars, config_vars, request, alone>>

\* call c stands at s.pc with locals s.f
RaceMoved(c, s) ==
    /\ at' = [at EXCEPT ![c] = s.pc]
    /\ calls' = [calls EXCEPT ![c] = s.f]
    /\ UNCHANGED race_others

\* a caller invokes create_asset(siteid, asset_data)
RaceCall(c) ==
    /\ at[c] = "idle"
    /\ RaceMoved(c, Stepped("cr_oslc", RaceEntry))
    /\ UNCHANGED assets

\* one create request: the backend makes a record exactly when it answers
\* 200 or 201
RaceCreate(c) ==
    /\ at[c] \in {"cr_oslc", "cr_rest", "cr_direct"}
    /\ \E resp \in CreateResponses :
          LET made == NewRecord(assets, RaceFields)
          IN  /\ assets' = IF resp.code \in {200, 201} THEN <<made>> \o assets ELSE assets
              /\ RaceMoved(c, RaceCreated(at[c], calls[c], resp, Get(made, <<"assetnum">>)))

\* time.sleep(3), then the search; the backend answers from its records or
\* refuses
RaceSearch(c) ==
    /\ at[c] = "cr_search"
    /\ \E answer \in {SearchAnswer(assets, RaceFields),
                      [code |-> 500, body |-> "none", member |-> << >>]} :
          RaceMoved(c, RaceSearched(calls[c], answer))
    /\ UNCHANGED assets

\* the detail read and the return
RaceReturn(c) ==
    /\ at[c] = "cr_detail"
    /\ \E full \in {<< >>} \cup
                   {assets[i] : i \in {j \in DOMAIN assets :
                        Get(assets[j], <<"assetnum">>) = calls[c].created_assetnum}} :
          RaceMoved(c, RaceReturned(calls[c], full))
    /\ UNCHANGED assets

RaceNext ==
    \E c \in Callers :
        \/ RaceCall(c)
        \/ RaceCreate(c)
        \/ RaceSearch(c)
        \/ RaceReturn(c)

RaceSpec == RaceInit /\ [][RaceNext]_vars

\* call c ended with a result that carries an asset number found by the search
ReturnedSearchedKey(c) ==
    /\ at[c] = "done"
    /\ calls[c].searched
    /\ calls[c].result.assetnum # "absent"

\* C31: two concurrent create calls on one site with the same submitted fields
\* that both fell back to the search never both return the same ResourceKey.
C31_ConcurrentCreatesDistinctKeys ==
    (ReturnedSearchedKey(1) /\ ReturnedSearchedKey(2)) =>
        calls[1].result.assetnum # calls[2].result.assetnum


\* C32: when the read before the write found the record, update_asset goes on
\* to at least one write strategy whatever the href lookup did: a failed, empty
\* or unparsable lookup never ends the update.
C32_HrefLookupNeverEndsUpdate ==
    (Done /\ op = "update_asset" /\ resolved = "yes") => writes_sent >= 1


\* the namespaced OSLC strategies and the action-style ones
OslcStrategies == {"oslc_read", "oslc_patch", "oslc_create"}
ActionStrategies == {"rest_change", "rest_add"}

PropertyKeys ==
    {<<"status">>, <<"spi:", "status">>, <<"siteid">>, <<"assetnum">>, <<"location">>}

PropertyFieldSets == DictsOver(PropertyKeys, {<<"ACTIVE">>}, MaxFields) \ {<< >>}

PropertiesInit ==
    /\ op = "idle"
    /\ pc = "idle"
    /\ phase = "none"
    /\ update_data \in PropertyFieldSets
    /\ fields_to_select = << >>
    /\ verify = TRUE
    /\ asset_href \in {"none", "href"}
    /\ success = FALSE
    /\ created_assetnum = None
    /\ chain = << >>
    /\ chain_kind = "none"
    /\ writes_sent = 0
    /\ verify_reads = 0
    /\ resolved = "yes"
    /\ wire = << >>
    /\ result = Blank
    /\ strategy = "none"
    /\ assetnum = <<"A1">>
    /\ siteid \in Sites
    /\ search_criteria = << >>
    /\ where_clause = << >>
    /\ create_fields = << >>
    /\ payload = << >>
    /\ response = [code |-> 0, body |-> "none", data |-> NoData]
    /\ members = NoMembers
    /\ host = << >>
    /\ api_key = << >>
    /\ credentials = "none"
    /\ client = "none"
    /\ config = NoConfig
    /\ ThreadsIdle
    /\ RequestIdle

PropertiesNext ==
    \/ BuildUpdateAssetOslc
    \/ BuildUpdateLocationOslc

PropertiesSpec == PropertiesInit /\ [][PropertiesNext]_vars

\* the names the Properties header of the request built last lists
NamedProperties ==
    LET parts == Split(Get(request.headers, "Properties"), Comma)
    IN  {parts[j] : j \in DOMAIN parts}

\* the submitted field names without their prefix
SubmittedNames == {Logical(update_data[i].k) : i \in DOMAIN update_data}

\* C34: the Properties header of an OSLC update request names exactly the
\* submitted update fields, unprefixed: every key of the submitted FieldSet,
\* also siteid or the natural key field when the FieldSet changes them, and
\* nothing else.
C34_PropertiesNamesSubmittedFields ==
    strategy \in {"oslc_patch", "loc_oslc_patch"} =>
        /\ Has(request.headers, "Properties")
        /\ NamedProperties = SubmittedNames

\* C34 for FieldSets that change neither the site nor the natural key
C34_PropertiesNamesOtherFields ==
    (/\ strategy \in {"oslc_patch", "loc_oslc_patch"}
     /\ \A i \in DOMAIN update_data :
           Logical(update_data[i].k) \notin
               {<<"siteid">>, IF strategy = "oslc_patch" THEN <<"assetnum">>
                              ELSE <<"location">>})
        => /\ Has(request.headers, "Properties")
           /\ NamedProperties = SubmittedNames


\* field name k carries the spi: prefix exactly once
PrefixedOnce(k) ==
    /\ Len(k) >= 2
    /\ k[1] = "spi:"
    /\ \A i \in 2..Len(k) : k[i] # "spi:"

\* C35: namespacing a payload field name is idempotent: every key of the
\* payload of an OSLC write strategy carries the spi: prefix exactly once, also
\* when the caller's field name already starts with spi:.
C35_PayloadKeysPrefixedOnce ==
    strategy \in {"oslc_create", "agent_oslc_create", "oslc_patch", "loc_oslc_patch",
                  "enh_oslc_patch"} =>
        \A i \in DOMAIN payload : PrefixedOnce(payload[i].k)

\* C35 for the OSLC payloads other than that of MaximoAPIClient.create_asset
C35_OtherPayloadKeysPrefixedOnce ==
    strategy \in {"agent_oslc_create", "oslc_patch", "loc_oslc_patch", "enh_oslc_patch"} =>
        \A i \in DOMAIN payload : PrefixedOnce(payload[i].k)


(***************************************************************************)
(* The attributes of a MaximoAPIClient across its calls.  config holds     *)
(* what __init__ assigned; every request takes its URL and headers from    *)
(* config, and a step leaves in config what the code leaves in self.       *)
(***************************************************************************)
\* host.rstrip('/')
RECURSIVE RStripSlash(_)
RStripSlash(h) ==
    IF h # << >> /\ h[Len(h)] = "/" THEN RStripSlash(SubSeq(h, 1, Len(h) - 1)) ELSE h

\* self.auth_header
AuthHeader(key, cred) ==
    IF TruthyText(key) THEN <<[k |-> "apikey", v |-> key]>>
    ELSE <<[k |-> "Authorization", v |-> <<"Basic", Space, "credentials">>]>>

\* the attributes __init__ assigns
Constructed(h, key, cred) ==
    LET base_url == RStripSlash(h) \o <<"/maximo">>
        auth_header == AuthHeader(key, cred)
    IN  [host |-> RStripSlash(h),
         api_key |-> key,
         credentials |-> cred,
         base_url |-> base_url,
         api_url |-> base_url \o <<"/api/os">>,
         oslc_url |-> base_url \o <<"/oslc/os">>,
         rest_url |-> base_url \o <<"/rest">>,
         auth_header |-> auth_header,
         headers |-> PutAll(auth_header,
                            <<[k |-> "Accept", v |-> <<"application/json">>]>>),
         json_headers |-> PutAll(auth_header,
                                 <<[k |-> "Content-Type", v |-> <<"application/json">>],
                                   [k |-> "Accept", v |-> <<"application/json">>]>>)]

\* a variant in which the dict of the request is self.json_headers itself,
\* updated in place
AfterUpdateInPlace(cfg, merged) == [cfg EXCEPT !.json_headers = merged]

\* self after {**self.json_headers, ...}: the literal builds a new dict
AfterSpread(cfg, merged) == cfg

\* the state when the constructor has returned
ClientInit ==
    /\ CallIdle
    /\ host \in Hosts
    /\ api_key \in ApiKeys
    /\ credentials \in Credentials
    /\ Construct(host, api_key, credentials) = "constructed"
    /\ client = "constructed"
    /\ config = Constructed(host, api_key, credentials)
    /\ ThreadsIdle
    /\ RequestIdle
    /\ strategy = "none"
    /\ assetnum = <<"A1">>
    /\ siteid = <<"BEDFORD">>
    /\ search_criteria = << >>
    /\ where_clause = << >>
    /\ create_fields = RaceFields
    /\ payload = << >>
    /\ response = [code |-> 0, body |-> "none", data |-> NoData]
    /\ members = NoMembers

\* one request of a call is sent as req; self is left as cfg
ClientSends(strat, req, cfg) ==
    /\ strategy' = strat
    /\ request' = req
    /\ config' = cfg
    /\ UNCHANGED <<call_vars, thread_vars, filter_vars, create_vars, read_vars, host, api_key,
                   credentials, client>>

\* get_asset: headers=self.headers
ClientGetAssetOslc ==
    /\ client = "constructed"
    /\ \E now \in Clock :
          ClientSends("oslc_read",
                      [GetAssetOslcRequest(assetnum, siteid, now)
                           EXCEPT !.url = config.oslc_url, !.headers = config.headers],
                      config)

ClientGetAssetRest ==
    /\ client = "constructed"
    /\ \E now \in Clock :
          ClientSends("rest_read",
                      [GetAssetRestRequest(assetnum, siteid, << >>, now)
                           EXCEPT !.url = config.api_url, !.headers = config.headers],
                      config)

\* update_asset, OSLC PATCH: patch_headers = {**self.json_headers, ...}
ClientUpdateOslc ==
    /\ client = "constructed"
    /\ \E upd \in WriteFieldSets :
          LET pl == OslcPayload(Identifiers(<<"assetnum">>, assetnum, siteid), upd)
              patch_headers ==
                  PutAll(config.json_headers,
                         <<[k |-> "x-method-override", v |-> <<"PATCH">>],
                           [k |-> "Properties", v |-> Properties(pl, <<"assetnum">>)]>>)
          IN  ClientSends("oslc_patch",
                          [OslcPatchRequest("none", pl, <<"assetnum">>, assetnum, siteid)
                               EXCEPT !.url = config.oslc_url, !.headers = patch_headers],
                          AfterSpread(config, patch_headers))

\* update_asset, _action=Change: headers=self.json_headers
ClientUpdateChange ==
    /\ client = "constructed"
    /\ ClientSends("rest_change",
                   [ActionRequest("Change", WriteRestWhere(<<"assetnum">>, assetnum, siteid))
                        EXCEPT !.url = config.api_url, !.headers = config.json_headers],
                   config)

\* create_asset, Method 1: create_headers = {**self.json_headers, "Properties": "*"}
ClientCreateOslc ==
    /\ client = "constructed"
    /\ LET create_headers ==
               PutAll(config.json_headers, <<[k |-> "Properties", v |-> <<"*">>]>>)
       IN  ClientSends("oslc_create",
                       [method |-> "POST", url |-> config.oslc_url,
                        headers |-> create_headers, params |-> << >>],
                       AfterSpread(config, create_headers))

\* create_asset, Methods 2 and 3: headers=self.json_headers
ClientCreateAdd ==
    /\ client = "constructed"
    /\ ClientSends("rest_add",
                   [ActionRequest("AddChange", << >>)
                        EXCEPT !.url = config.api_url, !.headers = config.json_headers],
                   config)

ClientNext ==
    \/ ClientGetAssetOslc
    \/ ClientGetAssetRest
    \/ ClientUpdateOslc
    \/ ClientUpdateChange
    \/ ClientCreateOslc
    \/ ClientCreateAdd

ClientSpec == ClientInit /\ [][ClientNext]_vars

\* C36: no fetch, update or create call changes the client's configuration:
\* host, base URLs, credentials and the shared header dicts are, after any
\* sequence of operations, what they were when the constructor returned.
C36_ConfigurationUnchangedByCalls ==
    client = "constructed" => config = Constructed(host, api_key, credentials)

\* an OSLC update was sent with headers of its own, self.json_headers being
\* without them
C36_Witness ==
    /\ strategy = "oslc_patch"
    /\ Has(request.headers, "x-method-override")
    /\ Has(request.headers, "Properties")
    /\ ~Has(config.json_headers, "x-method-override")
    /\ ~Has(config.json_headers, "Properties")

=============================================================================
